---- MODULE Spec2Model ----
(***************************************************************************)
(* A model of the question-extraction pipeline of                          *)
(* src/project/src/lib/gemini.ts and of its driver in                      *)
(* src/project/src/components/PDFScanner.tsx.                              *)
(*                                                                         *)
(* Part 1 models text: a text is a sequence of characters, a character is  *)
(* a one-character string.  The regular expressions, JSON.parse and the    *)
(* repair pass of the decoders are operators over such sequences.  The     *)
(* two characters a TLA+ string cannot spell, the backtick and the         *)
(* backspace, are the strings "<backtick>" and "<backspace>".              *)
(* Part 2 models the credential pool and the three retrying calls.         *)
(* Part 3 models the two orchestrators.                                    *)
(***************************************************************************)
EXTENDS Integers, Sequences, FiniteSets, TLC

(***************************************************************************)
(* Part 1a.  Characters.                                                   *)
(***************************************************************************)
BS == "\\"
QT == "\""
NL == "\n"
TAB == "\t"
CR == "\r"
FF == "\f"
BKSP == "<backspace>"
SP == " "
TICK == "<backtick>"

\* The white space of JSON.
JsonWs == {SP, TAB, NL, CR}
\* The control characters a JSON string may not hold unescaped.
ControlChars == {TAB, NL, CR, FF, BKSP}
Digits == {"0", "1", "2", "3", "4", "5", "6", "7", "8", "9"}
HexDigits == Digits \cup {"a", "b", "c", "d", "e", "f", "A", "B", "C", "D", "E", "F"}

DigitVal(c) ==
    CASE c = "0" -> 0 [] c = "1" -> 1 [] c = "2" -> 2 [] c = "3" -> 3
      [] c = "4" -> 4 [] c = "5" -> 5 [] c = "6" -> 6 [] c = "7" -> 7
      [] c = "8" -> 8 [] OTHER -> 9

DigitChar(d) ==
    CASE d = 0 -> "0" [] d = 1 -> "1" [] d = 2 -> "2" [] d = 3 -> "3" [] d = 4 -> "4"
      [] d = 5 -> "5" [] d = 6 -> "6" [] d = 7 -> "7" [] d = 8 -> "8" [] OTHER -> "9"

\* the characters of the codes 32 to 126, in the order of their codes
Ascii ==
    <<SP, "!", QT, "#", "$", "%", "&", "'", "(", ")", "*", "+", ",", "-",
      ".", "/", "0", "1", "2", "3", "4", "5", "6", "7", "8", "9", ":", ";",
      "<", "=", ">", "?", "@", "A", "B", "C", "D", "E", "F", "G", "H", "I",
      "J", "K", "L", "M", "N", "O", "P", "Q", "R", "S", "T", "U", "V", "W",
      "X", "Y", "Z", "[", BS, "]", "^", "_", TICK, "a", "b", "c", "d", "e",
      "f", "g", "h", "i", "j", "k", "l", "m", "n", "o", "p", "q", "r", "s",
      "t", "u", "v", "w", "x", "y", "z", "{", "|", "}", "~">>

HexVal(c) ==
    CASE c \in Digits -> DigitVal(c)
      [] c \in {"a", "A"} -> 10 [] c \in {"b", "B"} -> 11 [] c \in {"c", "C"} -> 12
      [] c \in {"d", "D"} -> 13 [] c \in {"e", "E"} -> 14 [] OTHER -> 15

HexChar(d) ==
    CASE d < 10 -> DigitChar(d)
      [] d = 10 -> "a" [] d = 11 -> "b" [] d = 12 -> "c"
      [] d = 13 -> "d" [] d = 14 -> "e" [] OTHER -> "f"

\* the character of a code: one of the characters of this model, or, for a code
\* no text of the model spells directly, the string "<uxxxx>" of its code
CodeChar(code) ==
    CASE code >= 32 /\ code <= 126 -> Ascii[code - 31]
      [] code = 8 -> BKSP [] code = 9 -> TAB [] code = 10 -> NL
      [] code = 12 -> FF [] code = 13 -> CR
      [] OTHER -> "<u" \o HexChar(code \div 4096) \o HexChar((code \div 256) % 16)
                       \o HexChar((code \div 16) % 16) \o HexChar(code % 16) \o ">"

\* the control characters beside those of ControlChars
OtherControlCodes == (0..31) \ {8, 9, 10, 12, 13}
OtherControls == {CodeChar(code) : code \in OtherControlCodes}

\* The codes of WhiteSpace and LineTerminator of JavaScript: tab, line feed,
\* vertical tab, form feed, carriage return, space, no-break space, U+1680,
\* U+2000 to U+200A, the line and the paragraph separator, U+202F, U+205F,
\* U+3000 and the byte order mark.
WhiteSpaceCodes ==
    {9, 10, 11, 12, 13, 32, 160, 5760, 8232, 8233, 8239, 8287, 12288, 65279} \cup (8192..8202)

\* The characters \s of a regular expression matches, which are also the
\* characters String.prototype.trim strips and parseInt and the conversion of
\* a string to a number skip.
RegexWs == {CodeChar(code) : code \in WhiteSpaceCodes}

\* String(n) of a natural number
RECURSIVE NatToChars(_)
NatToChars(n) ==
    IF n < 10 THEN <<DigitChar(n)>> ELSE Append(NatToChars(n \div 10), DigitChar(n % 10))

\* a substring(0, n) that does not cut
WholeString(s, n) == s

\* String.prototype.substring(0, n)
Substring0(s, n) == IF Len(s) <= n THEN s ELSE SubSeq(s, 1, n)

\* s holds the characters of w from position i on
StartsAt(s, i, w) ==
    /\ i >= 1
    /\ i + Len(w) - 1 <= Len(s)
    /\ \A k \in 1..Len(w) : s[i + k - 1] = w[k]

SetMin(P) == CHOOSE x \in P : \A y \in P : x <= y
SetMax(P) == CHOOSE x \in P : \A y \in P : x >= y

\* String.prototype.trim
Trim(chars) ==
    LET P == {k \in 1..Len(chars) : chars[k] \notin RegexWs}
    IN  IF P = {} THEN <<>> ELSE SubSeq(chars, SetMin(P), SetMax(P))

\* the least position >= i holding c, or 0
IndexFrom(s, c, i) ==
    LET P == {k \in i..Len(s) : s[k] = c}
    IN  IF P = {} THEN 0 ELSE SetMin(P)

\* the greatest position <= i holding c, or 0
LastIndexUpTo(s, c, i) ==
    LET P == {k \in 1..i : s[k] = c}
    IN  IF P = {} THEN 0 ELSE SetMax(P)

\* the least position >= i where w starts, or 0
FindFrom(s, w, i) ==
    LET P == {k \in i..Len(s) : StartsAt(s, k, w)}
    IN  IF P = {} THEN 0 ELSE SetMin(P)

\* the first position >= i that holds no character of ws (Len(s) + 1 at the end)
SkipSet(s, ws, i) ==
    LET P == {k \in i..Len(s) : s[k] \notin ws}
    IN  IF P = {} THEN (IF i > Len(s) THEN i ELSE Len(s) + 1) ELSE SetMin(P)

\* the concatenation of the sequences ss[lo], ..., ss[hi]
RECURSIVE FlattenRange(_, _, _)
FlattenRange(ss, lo, hi) ==
    IF lo > hi THEN <<>>
    ELSE IF lo = hi THEN ss[lo]
    ELSE FlattenRange(ss, lo, (lo + hi) \div 2) \o FlattenRange(ss, (lo + hi) \div 2 + 1, hi)
Flatten(ss) == FlattenRange(ss, 1, Len(ss))

(***************************************************************************)
(* Part 1b.  The regular expressions of the decoders.                      *)
(* A match is [found, text]: String.prototype.match returning null is      *)
(* found = FALSE.                                                          *)
(***************************************************************************)
NoMatch == [found |-> FALSE, text |-> <<>>]

\* the span were the star lazy: up to the first closing character
LazySpan(text, open, close) ==
    LET a == IndexFrom(text, open, 1)
        b == IF a = 0 THEN 0 ELSE IndexFrom(text, close, a)
    IN  IF a = 0 \/ b <= a THEN NoMatch
        ELSE [found |-> TRUE, text |-> SubSeq(text, a, b)]

\* the bracketed and the braced span: from the first opening character to the
\* last closing character after it (the star is greedy).
GreedySpan(text, open, close) ==
    LET a == IndexFrom(text, open, 1)
        b == LastIndexUpTo(text, close, Len(text))
    IN  IF a = 0 \/ b <= a THEN NoMatch
        ELSE [found |-> TRUE, text |-> SubSeq(text, a, b)]

MatchArray(text) == GreedySpan(text, "[", "]")
MatchObject(text) == GreedySpan(text, "{", "}")

FenceOpen == <<TICK, TICK, TICK, "j", "s", "o", "n">>
FenceClose == <<TICK, TICK, TICK>>

\* the least e >= c such that, after white space, the closing fence starts
LazyEnd(text, c) ==
    LET P == {e \in c..Len(text) : StartsAt(text, SkipSet(text, RegexWs, e), FenceClose)}
    IN  IF P = {} THEN 0 ELSE SetMin(P)

\* the interior of the block that ends at e, which starts at c
FenceUpTo(text, c, e) ==
    IF e = 0 THEN NoMatch ELSE [found |-> TRUE, text |-> SubSeq(text, c, e - 1)]

\* the block whose opening fence is at a (0: there is none)
FenceFrom(text, a) ==
    IF a = 0 THEN NoMatch
    ELSE FenceUpTo(text, SkipSet(text, RegexWs, a + Len(FenceOpen)),
                   LazyEnd(text, SkipSet(text, RegexWs, a + Len(FenceOpen))))

\* the fenced block labelled json, its interior trimmed of white space, taken
\* lazily: capture group 1 of the expression at gemini.ts line 427
MatchFence(text) == FenceFrom(text, FindFrom(text, FenceOpen, 1))

(***************************************************************************)
(* Part 1c.  JSON values and JSON.parse.                                   *)
(* A value is a record [t, s, n, kids]: t is its type ("str", "num",       *)
(* "true", "false", "null", "arr", "obj", and "undefined" for a missing    *)
(* property), s the characters of a string, n the value of an integer,     *)
(* kids the members [k, v] of an object in insertion order or the elements *)
(* of an array (k empty).  A number that is no integer of up to 9 digits   *)
(* has in s the text String gives for it.  The members of an object are in  *)
(* the order of its own property keys: the array indices in ascending     *)
(* order, then the other keys in the order they were made.                 *)
(***************************************************************************)
JStr(s) == [t |-> "str", s |-> s, n |-> 0, kids |-> <<>>]
JInt(n) == [t |-> "num", s |-> <<>>, n |-> n, kids |-> <<>>]
JNumLit(lit) == [t |-> "num", s |-> lit, n |-> 0, kids |-> <<>>]
JLit(name) == [t |-> name, s |-> <<>>, n |-> 0, kids |-> <<>>]
JArr(kids) == [t |-> "arr", s |-> <<>>, n |-> 0, kids |-> kids]
JObj(kids) == [t |-> "obj", s |-> <<>>, n |-> 0, kids |-> kids]
JNull == JLit("null")
JUndefined == JLit("undefined")
Member(k, v) == [k |-> k, v |-> v]

\* digits a spell a number below the number digits b spell, each without
\* leading zeros
DigitsLess(a, b) ==
    \/ Len(a) < Len(b)
    \/ /\ Len(a) = Len(b)
       /\ \E i \in 1..Len(a) :
              /\ DigitVal(a[i]) < DigitVal(b[i])
              /\ \A j \in 1..(i - 1) : a[j] = b[j]

\* the greatest array index, 2^32 - 2
MaxArrayIndex == <<"4", "2", "9", "4", "9", "6", "7", "2", "9", "4">>

\* the key is an array index: the canonical spelling of an integer from 0 to
\* 2^32 - 2
IsArrayIndex(k) ==
    /\ k # <<>>
    /\ \A i \in 1..Len(k) : k[i] \in Digits
    /\ Len(k) = 1 \/ k[1] # "0"
    /\ ~DigitsLess(MaxArrayIndex, k)

\* the member k: v put at position n + 1 of the members
InsertAfter(kids, n, k, v) ==
    SubSeq(kids, 1, n) \o <<Member(k, v)>> \o SubSeq(kids, n + 1, Len(kids))

\* obj[k] = v on an object's members: an existing key keeps its place; a new
\* key that is an array index goes among the array indices, which come first
\* in ascending order; any other new key goes to the end
ObjPut(kids, k, v) ==
    IF \E i \in 1..Len(kids) : kids[i].k = k
    THEN [i \in 1..Len(kids) |-> IF kids[i].k = k THEN Member(k, v) ELSE kids[i]]
    ELSE IF IsArrayIndex(k)
    THEN InsertAfter(kids, Cardinality({i \in 1..Len(kids) :
                                          /\ IsArrayIndex(kids[i].k)
                                          /\ DigitsLess(kids[i].k, k)}), k, v)
    ELSE Append(kids, Member(k, v))

\* a parse result: the value and the position after it
ParseFail == [ok |-> FALSE, v |-> JUndefined, p |-> 0]
ParseOk(v, p) == [ok |-> TRUE, v |-> v, p |-> p]

CharAt(s, i) == IF i >= 1 /\ i <= Len(s) THEN s[i] ELSE "<end>"

EscapeChar(e) ==
    CASE e = "b" -> BKSP [] e = "f" -> FF [] e = "n" -> NL
      [] e = "r" -> CR [] e = "t" -> TAB [] OTHER -> e

\* the character a \uXXXX escape with the hexadecimal digits a b c d stands for
UnicodeEscape(a, b, c, d) ==
    CodeChar(4096 * HexVal(a) + 256 * HexVal(b) + 16 * HexVal(c) + HexVal(d))

\* the characters of a string literal, from the position after its opening quote
RECURSIVE StrBody(_, _, _)
StrBody(s, j, acc) ==
    IF j > Len(s) THEN ParseFail
    ELSE IF s[j] = QT THEN ParseOk(JStr(acc), j + 1)
    ELSE IF s[j] \in ControlChars \cup OtherControls THEN ParseFail
    ELSE IF s[j] # BS THEN StrBody(s, j + 1, Append(acc, s[j]))
    ELSE IF CharAt(s, j + 1) \in {QT, BS, "/", "b", "f", "n", "r", "t"}
         THEN StrBody(s, j + 2, Append(acc, EscapeChar(s[j + 1])))
    ELSE IF /\ CharAt(s, j + 1) = "u"
            /\ \A k \in 2..5 : CharAt(s, j + k) \in HexDigits
         THEN StrBody(s, j + 6,
                      Append(acc, UnicodeEscape(s[j + 2], s[j + 3], s[j + 4], s[j + 5])))
    ELSE ParseFail

RECURSIVE IntVal(_, _, _, _)
IntVal(s, i, j, acc) ==
    IF i >= j THEN acc ELSE IntVal(s, i + 1, j, 10 * acc + DigitVal(s[i]))

\* The token of a number is the longest text from i on of the form
\* -?(0|[1-9][0-9]*)(\.[0-9]+)?([eE][+-]?[0-9]+)?
\* the position after the integer part that starts at j (j: there is none)
IntEnd(s, j) == IF CharAt(s, j) = "0" THEN j + 1 ELSE SkipSet(s, Digits, j)

\* the position after the fraction that starts at p (p: there is none)
FracEnd(s, p) ==
    IF CharAt(s, p) = "." /\ SkipSet(s, Digits, p + 1) > p + 1
    THEN SkipSet(s, Digits, p + 1) ELSE p

\* the position after the exponent that starts at p (p: there is none)
ExpEnd(s, p) ==
    LET k == IF CharAt(s, p + 1) \in {"+", "-"} THEN p + 2 ELSE p + 1
    IN  IF CharAt(s, p) \in {"e", "E"} /\ SkipSet(s, Digits, k) > k
        THEN SkipSet(s, Digits, k) ELSE p

\* The number a token spells is the double nearest to it, a tie going to the
\* even mantissa, and two tokens of one double are one value.  A value is
\* kept as its integer when it is an integer of up to 9 digits and else as
\* the text String(x) gives for it, whose digits are the shortest that spell
\* a number with x as its nearest double.
RECURSIVE DropLeadingZeros(_)
DropLeadingZeros(d) == IF d # <<>> /\ d[1] = "0" THEN DropLeadingZeros(Tail(d)) ELSE d
RECURSIVE DropTrailingZeros(_)
DropTrailingZeros(d) ==
    IF d # <<>> /\ d[Len(d)] = "0" THEN DropTrailingZeros(SubSeq(d, 1, Len(d) - 1)) ELSE d
Zeros(m) == [i \in 1..m |-> "0"]

\* the exponent its digits spell, cut at 999999
ExponentValue(d) == IF Len(d) > 6 THEN 999999 ELSE IntVal(d, 1, Len(d) + 1, 0)

\* the token from the positions of its parts: start of the integer part,
\* position after it, position after the fraction
TokenParts(lit, start, intEnd, fracEnd) ==
    [neg |-> lit[1] = "-",
     mantissa |-> DropLeadingZeros(SubSeq(lit, start, intEnd - 1)
                                       \o SubSeq(lit, intEnd + 1, fracEnd - 1)),
     fracLen |-> IF fracEnd > intEnd THEN fracEnd - intEnd - 1 ELSE 0,
     expNeg |-> CharAt(lit, fracEnd + 1) = "-",
     expDigits |-> IF fracEnd > Len(lit) THEN <<>>
                   ELSE DropLeadingZeros(
                            SubSeq(lit, IF CharAt(lit, fracEnd + 1) \in {"+", "-"}
                                        THEN fracEnd + 2 ELSE fracEnd + 1, Len(lit)))]

\* the number as 0.digits * 10^point, digits without leading and trailing zeros
Decimal(parts) ==
    [neg |-> parts.neg,
     digits |-> DropTrailingZeros(parts.mantissa),
     point |-> Len(parts.mantissa) - parts.fracLen
                  + (IF parts.expNeg THEN 0 - ExponentValue(parts.expDigits)
                     ELSE ExponentValue(parts.expDigits))]

DecimalOf(lit) ==
    Decimal(TokenParts(lit, IF lit[1] = "-" THEN 2 ELSE 1,
                       SkipSet(lit, Digits, IF lit[1] = "-" THEN 2 ELSE 1),
                       FracEnd(lit, SkipSet(lit, Digits, IF lit[1] = "-" THEN 2 ELSE 1))))

\* the digits of 2^-1075 = 0.247...e-323, half the least double above 0: a
\* number up to it rounds to 0
HalfLeastDigits ==
    <<"2", "4", "7", "0", "3", "2", "8", "2", "2", "9", "2", "0", "6", "2",
      "3", "2", "7", "2", "0", "8", "8", "2", "8", "4", "3", "9", "6", "4",
      "3", "4", "1", "1", "0", "6", "8", "6", "1", "8", "2", "5", "2", "9",
      "9", "0", "1", "3", "0", "7", "1", "6", "2", "3", "8", "2", "2", "1",
      "2", "7", "9", "2", "8", "4", "1", "2", "5", "0", "3", "3", "7", "7",
      "5", "3", "6", "3", "5", "1", "0", "4", "3", "7", "5", "9", "3", "2",
      "6", "4", "9", "9", "1", "8", "1", "8", "0", "8", "1", "7", "9", "9",
      "6", "1", "8", "9", "8", "9", "8", "2", "8", "2", "3", "4", "7", "7",
      "2", "2", "8", "5", "8", "8", "6", "5", "4", "6", "3", "3", "2", "8",
      "3", "5", "5", "1", "7", "7", "9", "6", "9", "8", "9", "8", "1", "9",
      "9", "3", "8", "7", "3", "9", "8", "0", "0", "5", "3", "9", "0", "9",
      "3", "9", "0", "6", "3", "1", "5", "0", "3", "5", "6", "5", "9", "5",
      "1", "5", "5", "7", "0", "2", "2", "6", "3", "9", "2", "2", "9", "0",
      "8", "5", "8", "3", "9", "2", "4", "4", "9", "1", "0", "5", "1", "8",
      "4", "4", "3", "5", "9", "3", "1", "8", "0", "2", "8", "4", "9", "9",
      "3", "6", "5", "3", "6", "1", "5", "2", "5", "0", "0", "3", "1", "9",
      "3", "7", "0", "4", "5", "7", "6", "7", "8", "2", "4", "9", "2", "1",
      "9", "3", "6", "5", "6", "2", "3", "6", "6", "9", "8", "6", "3", "6",
      "5", "8", "4", "8", "0", "7", "5", "7", "0", "0", "1", "5", "8", "5",
      "7", "6", "9", "2", "6", "9", "9", "0", "3", "7", "0", "6", "3", "1",
      "1", "9", "2", "8", "2", "7", "9", "5", "5", "8", "5", "5", "1", "3",
      "3", "2", "9", "2", "7", "8", "3", "4", "3", "3", "8", "4", "0", "9",
      "3", "5", "1", "9", "7", "8", "0", "1", "5", "5", "3", "1", "2", "4",
      "6", "5", "9", "7", "2", "6", "3", "5", "7", "9", "5", "7", "4", "6",
      "2", "2", "7", "6", "6", "4", "6", "5", "2", "7", "2", "8", "2", "7",
      "2", "2", "0", "0", "5", "6", "3", "7", "4", "0", "0", "6", "4", "8",
      "5", "4", "9", "9", "9", "7", "7", "0", "9", "6", "5", "9", "9", "4",
      "7", "0", "4", "5", "4", "0", "2", "0", "8", "2", "8", "1", "6", "6",
      "2", "2", "6", "2", "3", "7", "8", "5", "7", "3", "9", "3", "4", "5",
      "0", "7", "3", "6", "3", "3", "9", "0", "0", "7", "9", "6", "7", "7",
      "6", "1", "9", "3", "0", "5", "7", "7", "5", "0", "6", "7", "4", "0",
      "1", "7", "6", "3", "2", "4", "6", "7", "3", "6", "0", "0", "9", "6",
      "8", "9", "5", "1", "3", "4", "0", "5", "3", "5", "5", "3", "7", "4",
      "5", "8", "5", "1", "6", "6", "6", "1", "1", "3", "4", "2", "2", "3",
      "7", "6", "6", "6", "7", "8", "6", "0", "4", "1", "6", "2", "1", "5",
      "9", "6", "8", "0", "4", "6", "1", "9", "1", "4", "4", "6", "7", "2",
      "9", "1", "8", "4", "0", "3", "0", "0", "5", "3", "0", "0", "5", "7",
      "5", "3", "0", "8", "4", "9", "0", "4", "8", "7", "6", "5", "3", "9",
      "1", "7", "1", "1", "3", "8", "6", "5", "9", "1", "6", "4", "6", "2",
      "3", "9", "5", "2", "4", "9", "1", "2", "6", "2", "3", "6", "5", "3",
      "8", "8", "1", "8", "7", "9", "6", "3", "6", "2", "3", "9", "3", "7",
      "3", "2", "8", "0", "4", "2", "3", "8", "9", "1", "0", "1", "8", "6",
      "7", "2", "3", "4", "8", "4", "9", "7", "6", "6", "8", "2", "3", "5",
      "0", "8", "9", "8", "6", "3", "3", "8", "8", "5", "8", "7", "9", "2",
      "5", "6", "2", "8", "3", "0", "2", "7", "5", "5", "9", "9", "5", "6",
      "5", "7", "5", "2", "4", "4", "5", "5", "5", "0", "7", "2", "5", "5",
      "1", "8", "9", "3", "1", "3", "6", "9", "0", "8", "3", "6", "2", "5",
      "4", "7", "7", "9", "1", "8", "6", "9", "4", "8", "6", "6", "7", "9",
      "9", "4", "9", "6", "8", "3", "2", "4", "0", "4", "9", "7", "0", "5",
      "8", "2", "1", "0", "2", "8", "5", "1", "3", "1", "8", "5", "4", "5",
      "1", "3", "9", "6", "2", "1", "3", "8", "3", "7", "7", "2", "2", "8",
      "2", "6", "1", "4", "5", "4", "3", "7", "6", "9", "3", "4", "1", "2",
      "5", "3", "2", "0", "9", "8", "5", "9", "1", "3", "2", "7", "6", "6",
      "7", "2", "3", "6", "3", "2", "8", "1", "2", "5">>

\* the digits of 2^1024 - 2^970 = 0.1797...e309, half an ulp above the greatest
\* double: a number from it on rounds to Infinity
OverflowDigits ==
    <<"1", "7", "9", "7", "6", "9", "3", "1", "3", "4", "8", "6", "2", "3",
      "1", "5", "8", "0", "7", "9", "3", "7", "2", "8", "9", "7", "1", "4",
      "0", "5", "3", "0", "3", "4", "1", "5", "0", "7", "9", "9", "3", "4",
      "1", "3", "2", "7", "1", "0", "0", "3", "7", "8", "2", "6", "9", "3",
      "6", "1", "7", "3", "7", "7", "8", "9", "8", "0", "4", "4", "4", "9",
      "6", "8", "2", "9", "2", "7", "6", "4", "7", "5", "0", "9", "4", "6",
      "6", "4", "9", "0", "1", "7", "9", "7", "7", "5", "8", "7", "2", "0",
      "7", "0", "9", "6", "3", "3", "0", "2", "8", "6", "4", "1", "6", "6",
      "9", "2", "8", "8", "7", "9", "1", "0", "9", "4", "6", "5", "5", "5",
      "5", "4", "7", "8", "5", "1", "9", "4", "0", "4", "0", "2", "6", "3",
      "0", "6", "5", "7", "4", "8", "8", "6", "7", "1", "5", "0", "5", "8",
      "2", "0", "6", "8", "1", "9", "0", "8", "9", "0", "2", "0", "0", "0",
      "7", "0", "8", "3", "8", "3", "6", "7", "6", "2", "7", "3", "8", "5",
      "4", "8", "4", "5", "8", "1", "7", "7", "1", "1", "5", "3", "1", "7",
      "6", "4", "4", "7", "5", "7", "3", "0", "2", "7", "0", "0", "6", "9",
      "8", "5", "5", "5", "7", "1", "3", "6", "6", "9", "5", "9", "6", "2",
      "2", "8", "4", "2", "9", "1", "4", "8", "1", "9", "8", "6", "0", "8",
      "3", "4", "9", "3", "6", "4", "7", "5", "2", "9", "2", "7", "1", "9",
      "0", "7", "4", "1", "6", "8", "4", "4", "4", "3", "6", "5", "5", "1",
      "0", "7", "0", "4", "3", "4", "2", "7", "1", "1", "5", "5", "9", "6",
      "9", "9", "5", "0", "8", "0", "9", "3", "0", "4", "2", "8", "8", "0",
      "1", "7", "7", "9", "0", "4", "1", "7", "4", "4", "9", "7", "7", "9",
      "2">>

DigitOr0(d, i) == IF i <= Len(d) THEN DigitVal(d[i]) ELSE 0

\* 0.a against 0.b: -1, 0 or 1
CompareAt(a, b, D) ==
    IF D = {} THEN 0 ELSE IF DigitOr0(a, SetMin(D)) < DigitOr0(b, SetMin(D)) THEN 0 - 1 ELSE 1
CompareDigits(a, b) ==
    CompareAt(a, b, {i \in 1..(IF Len(a) > Len(b) THEN Len(a) ELSE Len(b)) :
                        DigitOr0(a, i) # DigitOr0(b, i)})

RoundsToZero(x) ==
    \/ x.digits = <<>>
    \/ x.point < 0 - 323
    \/ x.point = 0 - 323 /\ CompareDigits(x.digits, HalfLeastDigits) <= 0

RoundsToInfinity(x) ==
    /\ x.digits # <<>>
    /\ \/ x.point > 309
       \/ x.point = 309 /\ CompareDigits(x.digits, OverflowDigits) >= 0

\* Exact arithmetic.  A number above 0 is kept as [d, s]: d the decimal digits
\* of a natural number, as numbers and without leading zeros, and s the number
\* of fractional digits among them (the number is d / 10^s).
DigitAt(d, i) == IF i >= 1 /\ i <= Len(d) THEN d[i] ELSE 0
WithoutLeadingZero(d) == IF Len(d) > 0 /\ d[1] = 0 THEN Tail(d) ELSE d

\* twice the number: a digit takes a carry when the digit after it is 5 or more
DoubledDigits(d) ==
    SubSeq([i \in 1..(Len(d) + 1) |->
               ((2 * DigitAt(d, i - 1)) % 10) + (IF DigitAt(d, i) >= 5 THEN 1 ELSE 0)],
           1, Len(d) + 1)
Twice(x) == [d |-> WithoutLeadingZero(DoubledDigits(x.d)), s |-> x.s]

\* half the number: a digit takes 5 when the digit before it is odd
HalvedDigits(d) ==
    SubSeq([i \in 1..Len(d) |->
               (d[i] \div 2) + (IF DigitAt(d, i - 1) % 2 = 1 THEN 5 ELSE 0)], 1, Len(d))
Half(x) ==
    IF x.d[Len(x.d)] % 2 = 1
    THEN [d |-> WithoutLeadingZero(HalvedDigits(Append(x.d, 0))), s |-> x.s + 1]
    ELSE [d |-> WithoutLeadingZero(HalvedDigits(x.d)), s |-> x.s]

\* the number times 2^q, by halves of q
RECURSIVE TimesTwoTo(_, _)
TimesTwoTo(x, q) ==
    IF x.d = <<>> \/ q = 0 THEN x
    ELSE IF q = 1 THEN Twice(x)
    ELSE IF q = 0 - 1 THEN Half(x)
    ELSE IF q > 0 THEN TimesTwoTo(TimesTwoTo(x, q \div 2), q - (q \div 2))
    ELSE TimesTwoTo(TimesTwoTo(x, 0 - ((0 - q) \div 2)), q + ((0 - q) \div 2))

\* the digits of the integer part
IntegerPart(x) == IF Len(x.d) > x.s THEN SubSeq(x.d, 1, Len(x.d) - x.s) ELSE <<>>

\* the natural number of digits a is below the one of digits b
NatLess(a, b) ==
    \/ Len(a) < Len(b)
    \/ /\ Len(a) = Len(b)
       /\ \E i \in 1..Len(a) : a[i] < b[i] /\ \A j \in 1..(i - 1) : a[j] = b[j]

\* the number of digits d plus 1, and minus 1 (d above 0)
SuccessorDigits(e) ==
    SubSeq([i \in 1..Len(e) |->
               IF \A j \in (i + 1)..Len(e) : e[j] = 9 THEN (e[i] + 1) % 10 ELSE e[i]],
           1, Len(e))
Successor(d) == WithoutLeadingZero(SuccessorDigits(<<0>> \o d))
PredecessorDigits(d) ==
    SubSeq([i \in 1..Len(d) |->
               IF \A j \in (i + 1)..Len(d) : d[j] = 0 THEN (d[i] + 9) % 10 ELSE d[i]],
           1, Len(d))
Predecessor(d) == WithoutLeadingZero(PredecessorDigits(d))

\* the digits of 2^52 and of 2^53: the mantissa m of a normal double m * 2^e
\* is from 2^52 to 2^53 - 1; the least exponent, of the least normal doubles
\* and of the subnormal ones, whose mantissa is below 2^52, is -1074
Two52 == <<4, 5, 0, 3, 5, 9, 9, 6, 2, 7, 3, 7, 0, 4, 9, 6>>
Two53 == <<9, 0, 0, 7, 1, 9, 9, 2, 5, 4, 7, 4, 0, 9, 9, 2>>
IsLeastExponent(e) == e = 0 - 1074

\* the number x * 2^e as y * 2^f with y from 2^52 up to 2^53, or with f the
\* least exponent and y below 2^52
RECURSIVE Scaled(_, _)
Scaled(x, e) ==
    IF ~NatLess(IntegerPart(x), Two53) THEN Scaled(Half(x), e + 1)
    ELSE IF NatLess(IntegerPart(x), Two52) /\ ~IsLeastExponent(e) THEN Scaled(Twice(x), e - 1)
    ELSE [x |-> x, e |-> e]

\* A number of n integer digits (n <= 0: -n zeros after the point) is from
\* 10^(n - 1) up to 10^n, so that times 2^q, for q = 53 - floor(3.322 (n - 1)),
\* it is from 2^52 up to 2^58; q is at most 1074.
ShiftFor(n) ==
    IF 3375 - (((n + 999) * 3322) \div 1000) > 1074 THEN 1074
    ELSE 3375 - (((n + 999) * 3322) \div 1000)
ScaledBy(x, q) == Scaled(TimesTwoTo(x, q), 0 - q)
Normal(x) == ScaledBy(x, ShiftFor(Len(x.d) - x.s))

\* the fraction of x is above a half, or is a half and the integer part is odd
RoundsUp(x) ==
    \/ DigitAt(x.d, Len(x.d) - x.s + 1) > 5
    \/ /\ DigitAt(x.d, Len(x.d) - x.s + 1) = 5
       /\ \/ \E k \in (Len(x.d) - x.s + 2)..Len(x.d) : DigitAt(x.d, k) # 0
          \/ DigitAt(x.d, Len(x.d) - x.s) % 2 = 1

\* the double m * 2^e of the mantissa m
DoubleOf(m, e) == IF m = Two53 THEN [m |-> Two52, e |-> e + 1] ELSE [m |-> m, e |-> e]

\* the double nearest to y.x * 2^(y.e), y as Normal gives it
Rounded(y) ==
    DoubleOf(IF RoundsUp(y.x) THEN Successor(IntegerPart(y.x)) ELSE IntegerPart(y.x), y.e)

\* the decimal 0.digits * 10^point as [d, s]
FixedOf(x) ==
    IF x.point >= Len(x.digits)
    THEN [d |-> SubSeq([i \in 1..x.point |-> DigitOr0(x.digits, i)], 1, x.point), s |-> 0]
    ELSE [d |-> SubSeq([i \in 1..Len(x.digits) |-> DigitVal(x.digits[i])],
                       1, Len(x.digits)),
          s |-> Len(x.digits) - x.point]

\* the double nearest to the decimal x, which rounds neither to 0 nor to
\* Infinity
NearestDouble(x) == Rounded(Normal(FixedOf(x)))

\* The numbers with the double m * 2^e as their nearest double are those from
\* lo to hi, the middles between it and the doubles next to it (the double
\* below a power of two is half as far), the two included when m is even: as
\* multiples of 2^(e - 2), lo is 4m - 2 (4m - 1 above a power of two), the
\* double is 4m and hi is 4m + 2.
Fourfold(m) == Twice(Twice([d |-> m, s |-> 0])).d
LowOf(m, e) ==
    IF m = Two52 /\ ~IsLeastExponent(e) THEN Predecessor(Fourfold(m))
    ELSE Predecessor(Predecessor(Fourfold(m)))
HighOf(m) == Successor(Successor(Fourfold(m)))
NeighboursOf(x) ==
    [lo |-> TimesTwoTo([d |-> LowOf(x.m, x.e), s |-> 0], x.e - 2),
     at |-> TimesTwoTo([d |-> Fourfold(x.m), s |-> 0], x.e - 2),
     hi |-> TimesTwoTo([d |-> HighOf(x.m), s |-> 0], x.e - 2),
     closed |-> x.m[Len(x.m)] % 2 = 0]

\* the digits of y with s fractional digits, w digits in all
AlignedTo(y, s, w) ==
    [i \in 1..(w - Len(y.d) - (s - y.s)) |-> 0] \o y.d \o [i \in 1..(s - y.s) |-> 0]
Greatest(a, b, c) == IF a >= b /\ a >= c THEN a ELSE IF b >= c THEN b ELSE c
IntegerDigits(y) == Len(y.d) - y.s

\* of equal length: a is below b
SeqLess(a, b) == \E i \in 1..Len(a) : a[i] < b[i] /\ \A j \in 1..(i - 1) : a[j] = b[j]

\* c is a number whose nearest double is the one between lo and hi
Within(c, lo, hi, closed) ==
    IF closed THEN ~SeqLess(c, lo) /\ ~SeqLess(hi, c) ELSE SeqLess(lo, c) /\ SeqLess(c, hi)

\* at cut to its first p digits, and the number one unit of digit p above
CutDown(at, p) == [i \in 1..Len(at) |-> IF i <= p THEN at[i] ELSE 0]
CutUp(at, p) ==
    [i \in 1..Len(at) |->
        IF i > p THEN 0
        ELSE IF \A j \in (i + 1)..p : at[j] = 9 THEN (at[i] + 1) % 10 ELSE at[i]]

\* of the two, both within: the one nearer to at, the even one when as near
Nearer(at, p) ==
    IF DigitAt(at, p + 1) < 5 THEN CutDown(at, p)
    ELSE IF DigitAt(at, p + 1) > 5 \/ \E j \in (p + 2)..Len(at) : at[j] # 0
    THEN CutUp(at, p)
    ELSE IF at[p] % 2 = 0 THEN CutDown(at, p) ELSE CutUp(at, p)

\* the number of the fewest digits within lo and hi: a multiple of the unit
\* of digit p, for the least p that has one within, next to at
RECURSIVE ShortestFrom(_, _, _, _, _)
ShortestFrom(lo, at, hi, closed, p) ==
    IF Within(CutDown(at, p), lo, hi, closed)
    THEN (IF Within(CutUp(at, p), lo, hi, closed) THEN Nearer(at, p) ELSE CutDown(at, p))
    ELSE IF Within(CutUp(at, p), lo, hi, closed) THEN CutUp(at, p)
    ELSE ShortestFrom(lo, at, hi, closed, p + 1)

\* the digits c of w digits, s of them fractional, as 0.digits * 10^point
DecimalFrom(c, s, first, last) ==
    [digits |-> [i \in 1..(last - first + 1) |-> DigitChar(c[first + i - 1])],
     point |-> Len(c) - s - first + 1]
DecimalAt(c, s) ==
    DecimalFrom(c, s, SetMin({i \in 1..Len(c) : c[i] # 0}),
                SetMax({i \in 1..Len(c) : c[i] # 0}))
ShortestIn(n, s, w) ==
    DecimalAt(ShortestFrom(AlignedTo(n.lo, s, w), AlignedTo(n.at, s, w),
                           AlignedTo(n.hi, s, w), n.closed, 1), s)
ShortestWith(n, s) ==
    ShortestIn(n, s, 1 + s + Greatest(IntegerDigits(n.lo), IntegerDigits(n.at),
                                       IntegerDigits(n.hi)))

\* the digits and the exponent String gives for the double x
ShortestAmong(n) == ShortestWith(n, Greatest(n.lo.s, n.at.s, n.hi.s))
ShortestDecimal(x) == ShortestAmong(NeighboursOf(x))

\* Number.prototype.toString of 0.d * 10^n, d without its sign
NumberChars(d, n) ==
    IF Len(d) <= n /\ n <= 21 THEN d \o Zeros(n - Len(d))
    ELSE IF 0 < n /\ n <= 21 THEN SubSeq(d, 1, n) \o <<".">> \o SubSeq(d, n + 1, Len(d))
    ELSE IF 0 - 6 < n /\ n <= 0 THEN <<"0", ".">> \o Zeros(0 - n) \o d
    ELSE (IF Len(d) = 1 THEN d ELSE <<d[1], ".">> \o SubSeq(d, 2, Len(d)))
            \o (IF n - 1 < 0 THEN <<"e", "-">> \o NatToChars(1 - n)
                ELSE <<"e", "+">> \o NatToChars(n - 1))

Infinity == <<"I", "n", "f", "i", "n", "i", "t", "y">>
Signed(neg, chars) == IF neg THEN <<"-">> \o chars ELSE chars

\* the value of the double of sign neg that String spells with the decimal y
SpelledValue(neg, y) ==
    IF Len(y.digits) <= y.point /\ y.point <= 9
    THEN JInt(IF neg THEN 0 - IntVal(NumberChars(y.digits, y.point), 1, y.point + 1, 0)
              ELSE IntVal(NumberChars(y.digits, y.point), 1, y.point + 1, 0))
    ELSE JNumLit(Signed(neg, NumberChars(y.digits, y.point)))

\* A decimal of up to 15 digits from 1e-307 to 1e308 is the shortest spelling
\* of its nearest double: two decimals of up to 15 digits have different
\* nearest doubles there.
SpellsItsDouble(x) == Len(x.digits) <= 15 /\ x.point > 0 - 307 /\ x.point <= 308

\* the value of the decimal x
NumberValue(x) ==
    IF RoundsToZero(x) THEN JInt(0)
    ELSE IF RoundsToInfinity(x) THEN JNumLit(Signed(x.neg, Infinity))
    ELSE IF SpellsItsDouble(x)
    THEN SpelledValue(x.neg, [digits |-> x.digits, point |-> x.point])
    ELSE SpelledValue(x.neg, ShortestDecimal(NearestDouble(x)))

\* the value of the token lit
NumberOf(lit) == NumberValue(DecimalOf(lit))

\* the number from i on, its digits from j to intEnd, its token up to tokenEnd
NumberToken(s, i, j, intEnd, tokenEnd) ==
    IF intEnd = j THEN ParseFail
    ELSE ParseOk(NumberOf(SubSeq(s, i, tokenEnd - 1)), tokenEnd)

NumberFrom(s, i, j) == NumberToken(s, i, j, IntEnd(s, j), ExpEnd(s, FracEnd(s, IntEnd(s, j))))

ParseNumber(s, i) == NumberFrom(s, i, IF s[i] = "-" THEN i + 1 ELSE i)

RECURSIVE ParseValue(_, _)
RECURSIVE ValueAt(_, _)
RECURSIVE ParseElements(_, _, _)
RECURSIVE ElementsAfter(_, _, _)
RECURSIVE ParseMembers(_, _, _)
RECURSIVE MemberValue(_, _, _)
RECURSIVE MembersAfter(_, _, _, _)

\* the array continued after its element r
ElementsAfter(s, acc, r) ==
    LET k == SkipSet(s, JsonWs, r.p)
    IN  IF ~r.ok THEN ParseFail
        ELSE IF CharAt(s, k) = "," THEN ParseElements(s, k + 1, Append(acc, Member(<<>>, r.v)))
        ELSE IF CharAt(s, k) = "]" THEN ParseOk(JArr(Append(acc, Member(<<>>, r.v))), k + 1)
        ELSE ParseFail

\* the elements of an array from position j on, which starts an element
ParseElements(s, j, acc) == ElementsAfter(s, acc, ParseValue(s, j))

\* the object continued after its member key: val
MembersAfter(s, acc, key, val) ==
    LET k == SkipSet(s, JsonWs, val.p)
    IN  IF ~val.ok THEN ParseFail
        ELSE IF CharAt(s, k) = ","
             THEN ParseMembers(s, SkipSet(s, JsonWs, k + 1), ObjPut(acc, key.v.s, val.v))
        ELSE IF CharAt(s, k) = "}" THEN ParseOk(JObj(ObjPut(acc, key.v.s, val.v)), k + 1)
        ELSE ParseFail

\* the colon and the value after the key
MemberValue(s, acc, key) ==
    LET c == SkipSet(s, JsonWs, key.p)
    IN  MembersAfter(s, acc, key,
                     IF key.ok /\ CharAt(s, c) = ":" THEN ParseValue(s, c + 1) ELSE ParseFail)

\* the members of an object from position j on, which starts a key
ParseMembers(s, j, acc) ==
    MemberValue(s, acc, IF CharAt(s, j) = QT THEN StrBody(s, j + 1, <<>>) ELSE ParseFail)

\* the value that starts at position j
ValueAt(s, j) ==
    LET c == CharAt(s, j)
        n == SkipSet(s, JsonWs, j + 1)
    IN  IF c = "[" THEN (IF CharAt(s, n) = "]" THEN ParseOk(JArr(<<>>), n + 1)
                         ELSE ParseElements(s, n, <<>>))
        ELSE IF c = "{" THEN (IF CharAt(s, n) = "}" THEN ParseOk(JObj(<<>>), n + 1)
                              ELSE ParseMembers(s, n, <<>>))
        ELSE IF c = QT THEN StrBody(s, j + 1, <<>>)
        ELSE IF c = "-" \/ c \in Digits THEN ParseNumber(s, j)
        ELSE IF StartsAt(s, j, <<"t", "r", "u", "e">>) THEN ParseOk(JLit("true"), j + 4)
        ELSE IF StartsAt(s, j, <<"f", "a", "l", "s", "e">>) THEN ParseOk(JLit("false"), j + 5)
        ELSE IF StartsAt(s, j, <<"n", "u", "l", "l">>) THEN ParseOk(JNull, j + 4)
        ELSE ParseFail

\* the value after the white space from position i on
ParseValue(s, i) == ValueAt(s, SkipSet(s, JsonWs, i))

\* the value r when white space alone follows it
WholeText(s, r) ==
    IF r.ok /\ SkipSet(s, JsonWs, r.p) = Len(s) + 1 THEN r ELSE ParseFail

\* JSON.parse(s): ok = FALSE is the SyntaxError it throws
JSONParse(s) == WholeText(s, ParseValue(s, 1))

(***************************************************************************)
(* Part 1d.  The decoders: what each pass does with the text of a model    *)
(* response.                                                               *)
(***************************************************************************)
KeyPageNumber == <<"p", "a", "g", "e", "_", "n", "u", "m", "b", "e", "r">>
KeyConfidenceScore ==
    <<"c", "o", "n", "f", "i", "d", "e", "n", "c", "e", "_", "s", "c", "o", "r", "e">>
KeyQuestionStatement ==
    <<"q", "u", "e", "s", "t", "i", "o", "n", "_", "s", "t", "a", "t", "e", "m", "e", "n", "t">>
KeyQuestionNumber ==
    <<"q", "u", "e", "s", "t", "i", "o", "n", "_", "n", "u", "m", "b", "e", "r">>
KeyOptions == <<"o", "p", "t", "i", "o", "n", "s">>
KeyIsContinuation ==
    <<"i", "s", "_", "c", "o", "n", "t", "i", "n", "u", "a", "t", "i", "o", "n">>
KeySharedDescription ==
    <<"s", "h", "a", "r", "e", "d", "D", "e", "s", "c", "r", "i", "p", "t", "i", "o", "n">>

\* v.key: the property of a value (undefined when it has none; reading a
\* property of null is the TypeError the callers guard with IsNullish)
GetProp(v, key) ==
    IF v.t = "obj" /\ \E i \in 1..Len(v.kids) : v.kids[i].k = key
    THEN (CHOOSE m \in {v.kids[i] : i \in 1..Len(v.kids)} : m.k = key).v
    ELSE JUndefined

IsNullish(v) == v.t \in {"null", "undefined"}

\* whether the number a text spells is 0 (or -0)
SpellsZero(lit) == lit \notin {Infinity, Signed(TRUE, Infinity)} /\ NumberOf(lit) = JInt(0)

\* ToBoolean(v), as the || operator and an if take it
Truthy(v) ==
    CASE v.t = "str" -> v.s # <<>>
      [] v.t = "num" -> IF v.s = <<>> THEN v.n # 0 ELSE ~SpellsZero(v.s)
      [] v.t \in {"false", "null", "undefined"} -> FALSE
      [] OTHER -> TRUE

\* the own enumerable properties { ...q } copies
SpreadProps(q) ==
    CASE q.t = "obj" -> q.kids
      [] q.t = "arr" -> [i \in 1..Len(q.kids) |-> Member(NatToChars(i - 1), q.kids[i].v)]
      [] q.t = "str" -> [i \in 1..Len(q.s) |-> Member(NatToChars(i - 1), JStr(<<q.s[i]>>))]
      [] OTHER -> <<>>

\* { ...q, page_number: q.page_number ?? pageNumber, confidence_score: ... }:
\* a stamping that keeps the page the model reported
StampKeepingPage(q, pageNumber) ==
    LET score == GetProp(q, KeyConfidenceScore)
    IN  JObj(ObjPut(IF IsNullish(GetProp(q, KeyPageNumber))
                    THEN ObjPut(SpreadProps(q), KeyPageNumber, JInt(pageNumber))
                    ELSE SpreadProps(q),
                    KeyConfidenceScore, IF Truthy(score) THEN score ELSE JInt(1)))

\* { ...q, page_number: pageNumber, confidence_score: q.confidence_score || 1.0 }
StampOne(q, pageNumber) ==
    LET score == GetProp(q, KeyConfidenceScore)
    IN  JObj(ObjPut(ObjPut(SpreadProps(q), KeyPageNumber, JInt(pageNumber)),
                    KeyConfidenceScore, IF Truthy(score) THEN score ELSE JInt(1)))

\* a stamping that takes a lone record for a list of one record
StampLoneRecord(questions, pageNumber) ==
    IF questions.t = "obj"
    THEN [ok |-> TRUE, list |-> <<StampOne(questions, pageNumber)>>]
    ELSE IF questions.t # "arr"
            \/ \E i \in 1..Len(questions.kids) : IsNullish(questions.kids[i].v)
    THEN [ok |-> FALSE, list |-> <<>>]
    ELSE [ok |-> TRUE,
          list |-> [i \in 1..Len(questions.kids) |-> StampOne(questions.kids[i].v, pageNumber)]]

\* questions.map(q => ({ ...q, page_number, confidence_score })): ok = FALSE is
\* the TypeError of a value with no map method or of a null element
StampQuestions(questions, pageNumber) ==
    IF questions.t # "arr" \/ \E i \in 1..Len(questions.kids) : IsNullish(questions.kids[i].v)
    THEN [ok |-> FALSE, list |-> <<>>]
    ELSE [ok |-> TRUE,
          list |-> [i \in 1..Len(questions.kids) |-> StampOne(questions.kids[i].v, pageNumber)]]

\* questions.map(q => ({ ...q, page_number: pageNumber })) of
\* analyzePageForQuestions: ok = FALSE is the TypeError of a value with no map
\* method (the spread of null copies nothing and throws nothing)
StampPages(questions, pageNumber) ==
    IF questions.t # "arr" THEN [ok |-> FALSE, list |-> <<>>]
    ELSE [ok |-> TRUE,
          list |-> [i \in 1..Len(questions.kids) |->
                       JObj(ObjPut(SpreadProps(questions.kids[i].v), KeyPageNumber,
                                   JInt(pageNumber)))]]

\* .replace(/\\(?![\\"])/g, '\\\\'): a backslash that neither a backslash nor a
\* quote follows is doubled
EscapeSingleBackslashes(s) ==
    Flatten([i \in 1..Len(s) |->
                IF s[i] = BS /\ CharAt(s, i + 1) \notin {BS, QT} THEN <<BS, BS>> ELSE <<s[i]>>])

\* .replace(/\\\\\\\\+/g, '\\\\\\\\'): a run of four or more backslashes becomes
\* four: a backslash that four backslashes precede is dropped
CollapseBackslashRuns(s) ==
    Flatten([i \in 1..Len(s) |->
                IF i >= 5 /\ \A k \in (i - 4)..i : s[k] = BS THEN <<>> ELSE <<s[i]>>])

\* .replace(/\n/g, '\\n').replace(/\t/g, '\\t').replace(/\r/g, '\\r')
EscapeLineBreaks(s) ==
    Flatten([i \in 1..Len(s) |->
                CASE s[i] = NL -> <<BS, "n">> [] s[i] = TAB -> <<BS, "t">>
                  [] s[i] = CR -> <<BS, "r">> [] OTHER -> <<s[i]>>])

\* the repair pass of extractQuestionsWithContext
FixJson(s) == EscapeLineBreaks(CollapseBackslashRuns(EscapeSingleBackslashes(s)))

\* String.prototype.includes
Includes(s, pattern) ==
    \E i \in 1..(Len(s) - Len(pattern) + 1) : SubSeq(s, i, i + Len(pattern) - 1) = pattern

\* The errors of the model call, and those the calls make themselves.  message
\* is what the message of the error holds beside its fixed words, none of
\* which holds '429' or 'quota': the status of the response for a rate limit,
\* nothing for another failure of the model call or for a TypeError.
Status429 == <<"4", "2", "9">>
QuotaWord == <<"q", "u", "o", "t", "a">>
RateLimitError == [name |-> "RateLimit", cause |-> "none", message |-> Status429]
OtherCallError == [name |-> "Other", cause |-> "none", message |-> <<>>]
JsonSyntaxError == [name |-> "SyntaxError", cause |-> "none", message |-> <<>>]
JsTypeError == [name |-> "TypeError", cause |-> "none", message |-> <<>>]
\* new Error(`All ${maxRetries} API keys exhausted for page ${pageNumber}: ${error.message}`)
ExhaustedError(error) ==
    [name |-> "AllKeysExhausted", cause |-> error.name, message |-> error.message]
\* new Error(`Failed to analyze page ${pageNumber}: ${error}`)
AnalyzeError(error) ==
    [name |-> "FailedToAnalyze", cause |-> error.name, message |-> error.message]
NoError == [name |-> "none", cause |-> "none", message |-> <<>>]
\* new Error('No valid questions to save'), new Error(`Database error: ...`)
NoValidError == [name |-> "NoValidQuestions", cause |-> "none", message |-> <<>>]
DatabaseError == [name |-> "Database", cause |-> "none", message |-> <<>>]

\* The message of the SyntaxError JSON.parse(source) throws is left to the
\* engine.  One engine names the kind of the error and where it is, another
\* quotes the source or the part of it around the error: the message may hold
\* no part of the source, the source, or, when the source is long enough for
\* a column of that value (the column after its last character, for an
\* error at its end), the digits 429.
SyntaxErrorMessages(source) ==
    {<<>>} \cup (IF Includes(source, Status429) \/ Includes(source, QuotaWord)
                 THEN {source} ELSE {})
          \cup (IF Len(source) + 1 >= 429 THEN {Status429} ELSE {})
SyntaxErrors(source) ==
    {[JsonSyntaxError EXCEPT !.message = m] : m \in SyntaxErrorMessages(source)}

\* how the code after the response ends: the call returns a list of records or
\* the findings, or an error is thrown to the catch block of the call
Returns(list, findings) == [error |-> NoError, list |-> list, findings |-> findings]
Throws(error) == [error |-> error, list |-> <<>>, findings |-> JUndefined]

\* the candidate the extraction passes locate: the bracketed span, else the
\* interior of the fenced block
FirstFound(m, text) == IF m.found THEN m ELSE MatchFence(text)

LocateJson(text) == FirstFound(MatchArray(text), text)

\* no candidate located, were it an error as in analyzePageForQuestions
NoJsonThrows == Throws(OtherCallError)

\* if (!jsonMatch) return []
NoJsonFound == Returns(<<>>, JUndefined)

\* the stamping of what JSON.parse returned
StampParsed(r, pageNumber) ==
    IF r.ok THEN StampQuestions(r.v, pageNumber) ELSE [ok |-> FALSE, list |-> <<>>]

\* JSON.parse and the stamping, inside one try: ok = FALSE when either throws
ParseAndStamp(s, pageNumber) == StampParsed(JSONParse(s), pageNumber)

\* the end of a try whose catch block returns []
ListOrEmpty(stamped) ==
    IF stamped.ok THEN Returns(stamped.list, JUndefined) ELSE Returns(<<>>, JUndefined)

\* the catch block of the first parse of extractQuestionsWithContext: the
\* repaired candidate is parsed and stamped in a try of its own
RepairAndParse(candidate, pageNumber) ==
    ListOrEmpty(ParseAndStamp(FixJson(candidate), pageNumber))

\* extractQuestionsWithContext from the candidate m and its first parse on
WithContextParsed(m, first, pageNumber) ==
    IF ~m.found THEN NoJsonFound
    ELSE IF first.ok THEN Returns(first.list, JUndefined)
    ELSE RepairAndParse(m.text, pageNumber)

WithContextLocated(m, pageNumber) ==
    WithContextParsed(m, ParseAndStamp(m.text, pageNumber), pageNumber)

\* extractQuestionsWithContext from the response text on
DecodeWithContext(text, pageNumber) == WithContextLocated(LocateJson(text), pageNumber)

\* performExtraction from the candidate m on
SinglePassLocated(m, pageNumber) ==
    IF ~m.found THEN NoJsonFound ELSE ListOrEmpty(ParseAndStamp(m.text, pageNumber))

\* performExtraction from the response text on
DecodeSinglePass(text, pageNumber) == SinglePassLocated(LocateJson(text), pageNumber)

\* analyzePageStructure from the parse of the braced span on: nothing there
\* catches the SyntaxError of JSON.parse
StructureParsed(r) == IF r.ok THEN Returns(<<>>, r.v) ELSE Throws(JsonSyntaxError)

StructureLocated(m) ==
    IF ~m.found THEN Returns(<<>>, JObj(<<>>)) ELSE StructureParsed(JSONParse(m.text))

\* analyzePageStructure from the response text on
DecodeStructure(text) == StructureLocated(MatchObject(text))

\* analyzePageForQuestions from the parse of the bracketed span on: nothing
\* there catches the SyntaxError of JSON.parse or the TypeError of map
AnalyzeStamped(r, stamped) ==
    IF ~r.ok THEN Throws(JsonSyntaxError)
    ELSE IF ~stamped.ok THEN Throws(JsTypeError)
    ELSE Returns(stamped.list, JUndefined)

AnalyzeParsed(r, pageNumber) == AnalyzeStamped(r, StampPages(r.v, pageNumber))

AnalyzeLocated(m, pageNumber) ==
    IF ~m.found THEN Returns(<<>>, JUndefined) ELSE AnalyzeParsed(JSONParse(m.text), pageNumber)

\* analyzePageForQuestions from the response text on
DecodeAnalyze(text, pageNumber) == AnalyzeLocated(MatchArray(text), pageNumber)

\* what a call of the kind does with the response text
Decode(kind, text, pageNumber) ==
    CASE kind = "structure" -> DecodeStructure(text)
      [] kind = "context" -> DecodeWithContext(text, pageNumber)
      [] kind = "analyze" -> DecodeAnalyze(text, pageNumber)
      [] OTHER -> DecodeSinglePass(text, pageNumber)

(***************************************************************************)
(* Part 2.  The credential pool and the three retrying calls.              *)
(*                                                                         *)
(* The program state: API_KEYS (fixed when the module loads: the key of    *)
(* the environment, when one is set, and the eight keys written in the     *)
(* source), keyUsageCount, and for the call in progress its kind, page,    *)
(* retryCount and position.  A call is one of analyzePageStructure         *)
(* ("structure"), extractQuestionsWithContext ("context") and              *)
(* performExtraction ("single").  Its steps are the code between two       *)
(* awaits: the attempt is issued in the step that enters the loop, the     *)
(* response or the failure of the model ends the await, the back-off timer *)
(* ends the wait of 2 s.                                                   *)
(***************************************************************************)
VARIABLES
    API_KEYS,         \* the keys left by the filter, in the order of the source
    keyUsageCount,    \* key -> number of times it was handed out (absent = 0)
    callKind,         \* "none" or the kind of the call in progress or just ended
    callPage,         \* pageNumber of that call
    retryCount,       \* its retryCount
    callPc,           \* "idle", "inflight", "backoff", "returned", "thrown"
    apiKey,           \* the key of the attempt in flight (the last one acquired)
    callResult,       \* what the call returned (a list of records, or findings)
    callError,        \* what the call threw
    caller,           \* who awaits the call
    attemptLog,       \* history: how many attempts of this call ended each way
    callText,         \* history: the response text the call received, if any
    callPrompt,       \* what the prompt of the attempt in flight was built from
    inFlight,         \* history: the model requests made and not yet answered or failed
    callKeys,         \* history: the keys this call has acquired, in order
    acquired,         \* history: the number of getNextApiKey calls so far
    lastAcquire,      \* history: the usage counts before the last getNextApiKey
    harnessCalls,     \* the number of calls the call harness has made
    tasks,            \* the calls that callers of the module have running at once
    sharedDescriptions, \* enhancedQuestionExtraction: page -> shared description
    allQuestions,     \* enhancedQuestionExtraction: the accumulated records
    previousContext,  \* scanAndExtractQuestions: the statements of the last page with questions
    currentPdfMemory, \* scanAndExtractQuestions: page -> the head of its response
    run,              \* "none", or the run in progress or ended: "twopass", "scan"
    runPc,            \* where the run is
    images,           \* the number of page images of the document
    startPageNumber,  \* enhancedQuestionExtraction: the number of the first page
    pageIndex,        \* the loop variable i of the page loop
    pageLog,          \* history: how the call of each page ended, in order
    pdfUploads,       \* component state: the upload slots
    selectedExam,     \* component state
    validPdfs,        \* getValidPdfs() in the scan handler: the uploads with a file and a year
    pdfIndex,         \* its loop variable pdfIndex
    pdfQuestions,     \* the records of the PDF in progress
    allExtractedQuestions, \* the records of the PDFs so far
    extractedQuestions,    \* component state: the records shown
    isScanning,       \* component state
    autoSaveEnabled,  \* component state
    selectedCourse,   \* component state
    scanRead,         \* autoSaveEnabled and selectedCourse as the scan handler read them
    pendingInsert,    \* the rows of the insert in flight
    store,            \* the batches of rows the store has taken, in order
    save,             \* the call of savePdfQuestions the save harness has made
    manual            \* saveAllToDatabase: where it is, and the groups left to save

poolVars == <<API_KEYS, keyUsageCount, apiKey, acquired, lastAcquire>>
callState == <<callKind, callPage, retryCount, callPc, callResult, callError,
               attemptLog, callText, callPrompt, inFlight, callKeys>>
callVars == <<callState, caller>>
dataVars == <<sharedDescriptions, allQuestions, previousContext, currentPdfMemory>>
runVars == <<run, runPc, images, startPageNumber, pageIndex, pageLog>>
scanVars == <<pdfUploads, selectedExam,
              validPdfs, pdfIndex, pdfQuestions, allExtractedQuestions, extractedQuestions,
              isScanning, autoSaveEnabled, selectedCourse, scanRead, pendingInsert, store,
              save, manual>>

\* the keys as texts: the eight of the source, and one the environment may
\* give that is none of them; no key, before the first is handed out
KeyText(n) == <<"k", "e", "y">> \o NatToChars(n)
EnvKey == <<"e", "n", "v">>
HardcodedKeys == [n \in 1..8 |-> KeyText(n)]
NoKey == <<>>
AllKeys == {EnvKey} \cup {HardcodedKeys[i] : i \in 1..Len(HardcodedKeys)}

\* the for loop of getNextApiKey from position i on
RECURSIVE LeastUsedFrom(_, _, _, _)
LeastUsedFrom(keys, usageCount, i, bestKey) ==
    IF i > Len(keys) THEN bestKey
    ELSE IF usageCount[keys[i]] < usageCount[bestKey]
         THEN LeastUsedFrom(keys, usageCount, i + 1, keys[i])
    ELSE LeastUsedFrom(keys, usageCount, i + 1, bestKey)

\* a getNextApiKey whose comparison is <=: the last of the least used keys
RECURSIVE LastLeastUsedFrom(_, _, _, _)
LastLeastUsedFrom(keys, usageCount, i, bestKey) ==
    IF i > Len(keys) THEN bestKey
    ELSE IF usageCount[keys[i]] <= usageCount[bestKey]
         THEN LastLeastUsedFrom(keys, usageCount, i + 1, keys[i])
    ELSE LastLeastUsedFrom(keys, usageCount, i + 1, bestKey)
LastLeastUsed(keys, usageCount) == LastLeastUsedFrom(keys, usageCount, 1, keys[1])

\* the key getNextApiKey returns
getNextApiKey(keys, usageCount) == LeastUsedFrom(keys, usageCount, 1, keys[1])

\* a getNextApiKey that hands out the key and leaves its count as it was
AcquireUncounted ==
    LET bestKey == getNextApiKey(API_KEYS, keyUsageCount)
    IN  /\ apiKey' = bestKey
        /\ acquired' = acquired + 1
        /\ lastAcquire' = keyUsageCount
        /\ UNCHANGED <<API_KEYS, keyUsageCount>>

\* a getNextApiKey that another call overtakes between its read and its write:
\* it chooses and writes from the counts as they were before the call before it
AcquireFromStaleRead ==
    LET bestKey == getNextApiKey(API_KEYS, lastAcquire)
    IN  /\ keyUsageCount' = [keyUsageCount EXCEPT ![bestKey] = lastAcquire[bestKey] + 1]
        /\ apiKey' = bestKey
        /\ acquired' = acquired + 1
        /\ lastAcquire' = keyUsageCount
        /\ UNCHANGED API_KEYS

\* the effect of getNextApiKey on the pool
Acquire ==
    LET bestKey == getNextApiKey(API_KEYS, keyUsageCount)
    IN  /\ keyUsageCount' = [keyUsageCount EXCEPT ![bestKey] = @ + 1]
        /\ apiKey' = bestKey
        /\ acquired' = acquired + 1
        /\ lastAcquire' = keyUsageCount
        /\ UNCHANGED API_KEYS

maxRetries == Len(API_KEYS)

\* error.message?.includes('429') || error.message?.includes('quota')
IsQuotaError(error) ==
    Includes(error.message, Status429) \/ Includes(error.message, QuotaWord)

\* how an attempt ends: with the error of that name, or with a response decoded
Outcomes == {"RateLimit", "Other", "SyntaxError", "TypeError", "ok"}
NoAttempts == [o \in Outcomes |-> 0]
Logged(log, outcome) == [log EXCEPT ![outcome] = @ + 1]
Attempts(log) ==
    log["RateLimit"] + log["Other"] + log["SyntaxError"] + log["TypeError"] + log["ok"]

\* a Map as the sequence of its entries in insertion order
MapGet(m, k) ==
    IF \E i \in 1..Len(m) : m[i].k = k
    THEN (CHOOSE e \in {m[i] : i \in 1..Len(m)} : e.k = k).v
    ELSE JUndefined
MapSet(m, k, v) ==
    IF \E i \in 1..Len(m) : m[i].k = k
    THEN [i \in 1..Len(m) |-> IF m[i].k = k THEN Member(k, v) ELSE m[i]]
    ELSE Append(m, Member(k, v))

\* Array.prototype.slice(0, n)
FirstN(seq, n) == IF Len(seq) <= n THEN seq ELSE SubSeq(seq, 1, n)

\* Array.prototype.slice(-n)
LastN(seq, n) == IF Len(seq) <= n THEN seq ELSE SubSeq(seq, Len(seq) - n + 1, Len(seq))

KeyToString == <<"t", "o", "S", "t", "r", "i", "n", "g">>

\* String(v) throws a TypeError: an object whose member toString, which is
\* no function, hides the method, or an array that holds one
RECURSIVE SpellingThrows(_)
SpellingThrows(v) ==
    CASE v.t = "obj" -> \E i \in 1..Len(v.kids) : v.kids[i].k = KeyToString
      [] v.t = "arr" -> \E i \in 1..Len(v.kids) : SpellingThrows(v.kids[i].v)
      [] OTHER -> FALSE

\* previousQuestions.slice(-3).map(q =>
\*     `Q${q.question_number}: ${q.question_statement.substring(0, 200)}...`)
\* throws a TypeError: a number that cannot be converted to a string, or a
\* statement that is not a string
RecentContextThrows(previousQuestions) ==
    \E i \in 1..Len(LastN(previousQuestions, 3)) :
        \/ SpellingThrows(GetProp(LastN(previousQuestions, 3)[i], KeyQuestionNumber))
        \/ GetProp(LastN(previousQuestions, 3)[i], KeyQuestionStatement).t # "str"

\* ${currentSharedDescription ? `... "${currentSharedDescription}"` : '...'}
\* throws a TypeError: a description that is truthy and cannot be converted to
\* a string
DescriptionThrows(description) == Truthy(description) /\ SpellingThrows(description)

\* building the prompt of an attempt throws a TypeError
PromptThrows(kind, page, args) ==
    /\ kind = "context"
    /\ \/ RecentContextThrows(args.questions)
       \/ DescriptionThrows(MapGet(args.descriptions, page))

\* what the prompt of an attempt is built from
NoPrompt == [description |-> JUndefined, recent |-> <<>>, memory |-> <<>>, previous |-> <<>>]
\* a prompt that carries the description stored last, whatever its page
PromptWithLastDescription(kind, page, args) ==
    CASE kind = "context" ->
            [description |-> IF args.descriptions = <<>> THEN JUndefined
                             ELSE args.descriptions[Len(args.descriptions)].v,
             recent |-> LastN(args.questions, 3), memory |-> <<>>, previous |-> <<>>]
      [] kind = "single" ->
            [description |-> JUndefined, recent |-> <<>>,
             memory |-> LastN(args.memory, 3), previous |-> args.previous]
      [] OTHER -> NoPrompt

PromptOf(kind, page, args) ==
    CASE kind = "context" ->
            [description |-> MapGet(args.descriptions, page),
             recent |-> LastN(args.questions, 3), memory |-> <<>>, previous |-> <<>>]
      [] kind = "single" ->
            [description |-> JUndefined, recent |-> <<>>,
             memory |-> LastN(args.memory, 3), previous |-> args.previous]
      [] OTHER -> NoPrompt

\* the arguments of a call beside the page: sharedDescriptions and
\* previousQuestions (extractQuestionsWithContext), previousContext and
\* pageMemory (performExtraction)
CallArgs(descriptions, questions, previous, memory) ==
    [descriptions |-> descriptions, questions |-> questions,
     previous |-> previous, memory |-> memory]

\* a catch block that rethrows whatever it caught
TwoPassNoRetry(error, count, max) == [next |-> "throw", error |-> error]

\* the catch block of analyzePageStructure and of extractQuestionsWithContext,
\* retryCount already incremented: what the call does next
TwoPassCatch(error, count, max) ==
    IF IsQuotaError(error) /\ count < max
    THEN [next |-> "backoff", error |-> NoError]
    ELSE [next |-> "throw", error |-> error]

\* the catch block of performExtraction, retryCount already incremented
SinglePassCatch(error, count, max) ==
    IF IsQuotaError(error) /\ count < max
    THEN [next |-> "backoff", error |-> NoError]
    ELSE IF count >= max
    THEN [next |-> "throw", error |-> ExhaustedError(error)]
    ELSE [next |-> "retry", error |-> NoError]

\* the catch block of analyzePageForQuestions, which makes one attempt
AnalyzeCatch(error) == [next |-> "throw", error |-> AnalyzeError(error)]

CatchDecision(kind, error, count, max) ==
    IF kind = "single" THEN SinglePassCatch(error, count, max)
    ELSE IF kind = "analyze" THEN AnalyzeCatch(error)
    ELSE TwoPassCatch(error, count, max)

\* the error thrown after the while loop
AfterLoopError == [name |-> "AllKeysExhausted", cause |-> "none", message |-> <<>>]

\* The top of the while loop with retryCount = count: the key is acquired and
\* the prompt built; the attempt is then in flight, unless building the prompt
\* threw, which the catch block of the call handles.  pending is the number
\* of requests in flight before.
EnterLoopWith(kind, page, count, log, args, pending) ==
    /\ callKind' = kind
    /\ callPage' = page
    /\ IF count >= maxRetries
       THEN /\ callPc' = "thrown"
            /\ callError' = AfterLoopError
            /\ retryCount' = count
            /\ attemptLog' = log
            /\ callPrompt' = NoPrompt
            /\ inFlight' = pending
            /\ callKeys' = IF count = 0 THEN <<>> ELSE callKeys
            /\ UNCHANGED poolVars
       ELSE /\ Acquire
            /\ callKeys' = IF count = 0 THEN <<apiKey'>> ELSE Append(callKeys, apiKey')
            /\ IF PromptThrows(kind, page, args)
               THEN /\ callPc' = "thrown"
                    /\ callError' = CatchDecision(kind, JsTypeError, count + 1, maxRetries).error
                    /\ retryCount' = count + 1
                    /\ attemptLog' = Logged(log, "TypeError")
                    /\ callPrompt' = NoPrompt
                    /\ inFlight' = pending
               ELSE /\ callPc' = "inflight"
                    /\ callError' = NoError
                    /\ retryCount' = count
                    /\ attemptLog' = log
                    /\ callPrompt' = PromptOf(kind, page, args)
                    /\ inFlight' = pending + 1

EnterLoop(kind, page, count, log, pending) ==
    EnterLoopWith(kind, page, count, log,
                  CallArgs(sharedDescriptions, allQuestions, previousContext, currentPdfMemory),
                  pending)

\* The catch block of the call in progress, entered with error: the request
\* that was in flight has ended.
Caught(error) ==
    LET count == IF callKind = "analyze" THEN retryCount ELSE retryCount + 1
        log == Logged(attemptLog, error.name)
        d == CatchDecision(callKind, error, count, maxRetries)
    IN  IF d.next = "retry"
        THEN EnterLoop(callKind, callPage, count, log, inFlight - 1)
        ELSE /\ inFlight' = inFlight - 1
             /\ retryCount' = count
             /\ attemptLog' = log
             /\ callPc' = IF d.next = "backoff" THEN "backoff" ELSE "thrown"
             /\ callError' = d.error
             /\ callPrompt' = NoPrompt
             /\ UNCHANGED <<callKind, callPage, poolVars, callKeys>>

(***************************************************************************)
(* Part 2b.  Response texts.  The model answers with any text; the texts   *)
(* below follow the response formats the prompts ask for, and depart from  *)
(* them the ways the decoders provide for.                                 *)
(***************************************************************************)
KeyQuestionType ==
    <<"q", "u", "e", "s", "t", "i", "o", "n", "_", "t", "y", "p", "e">>
TypeMCQ == <<"M", "C", "Q">>

\* a string literal whose raw characters are chars, and a member "key":value
StrText(chars) == <<QT>> \o chars \o <<QT>>
PairText(key, valueText) == StrText(key) \o <<":">> \o valueText

\* the text of a question record: number, type and statement as the prompts
\* ask, the statement spelled with the raw characters given
RecordText(number, rawStatement) ==
    <<"{">> \o PairText(KeyQuestionNumber, StrText(number)) \o <<",">>
            \o PairText(KeyQuestionType, StrText(TypeMCQ)) \o <<",">>
            \o PairText(KeyQuestionStatement, StrText(rawStatement)) \o <<"}">>

\* the records joined by sep
JoinTexts(texts, sep) ==
    Flatten([i \in 1..Len(texts) |-> IF i = 1 THEN texts[i] ELSE sep \o texts[i]])

\* an array on one line, and one laid out over several lines
CompactArray(recordTexts) == <<"[">> \o JoinTexts(recordTexts, <<",">>) \o <<"]">>
MultiLineArray(recordTexts) ==
    <<"[", NL>> \o JoinTexts(recordTexts, <<",", NL>>) \o <<NL, "]">>

Fenced(text) == FenceOpen \o <<NL>> \o text \o <<NL>> \o FenceClose

\* the findings object of the structural prompt
FindingsText(rawDescription) ==
    <<"{">> \o PairText(KeySharedDescription, StrText(rawDescription)) \o <<"}">>

Prose == <<"N", "o", " ", "q", "u", "e", "s", "t", "i", "o", "n", "s", ".">>

\* a text of more than 1000 characters
LongProse == [i \in 1..1003 |-> IF i % 2 = 1 THEN "x" ELSE "y"]

\* the response texts of the call specification
TextOneRecord == CompactArray(<<RecordText(<<"5">>, <<"a">>)>>)
TextRepairable == CompactArray(<<RecordText(<<"5">>, <<BS, "a">>)>>)
TextMultiLineBackslash == MultiLineArray(<<RecordText(<<"5">>, <<BS, "a">>)>>)
TextFencedFindings == Fenced(FindingsText(<<"a">>))
TextFindings == FindingsText(<<"a">>)
TextBadFindings == FindingsText(<<BS, "a">>)
\* findings that are no JSON, the word quota among them
TextQuotaFindings ==
    <<"{", QT, "q", "u", "o", "t", "a", QT, ":", " ", "b", "a", "d", "}">>
TextOtherFindings == FindingsText(<<"b">>)
\* findings that are no JSON, of 428 characters, a string without its end
\* the last of them
TextUnendedFindings == <<"{">> \o [i \in 1..424 |-> SP] \o <<QT, "x", "}">>
\* a value that cannot be converted to a string: { "toString": 1 }
UnspellableText == <<"{">> \o PairText(KeyToString, <<"1">>) \o <<"}">>
\* findings whose description is such a value, and a record whose number is
TextUnspellableFindings ==
    <<"{">> \o PairText(KeySharedDescription, UnspellableText) \o <<"}">>
TextUnspellableNumber ==
    CompactArray(<<<<"{">> \o PairText(KeyQuestionNumber, UnspellableText) \o <<",">>
                          \o PairText(KeyQuestionType, StrText(TypeMCQ)) \o <<",">>
                          \o PairText(KeyQuestionStatement, StrText(<<"a">>)) \o <<"}">>>>)
TextEmptyFindings == FindingsText(<<>>)
TextNoStatement ==
    CompactArray(<<<<"{">> \o PairText(KeyQuestionNumber, StrText(<<"5">>)) \o <<"}">>>>)
TextTwoRecords ==
    CompactArray(<<RecordText(<<"5">>, <<"b">>), RecordText(<<"6">>, <<"c">>)>>)
TextFourRecords ==
    CompactArray(<<RecordText(<<"1">>, <<"d">>), RecordText(<<"2">>, <<"e">>),
                   RecordText(<<"3">>, <<"f">>), RecordText(<<"4">>, <<"g">>)>>)

\* a record that reports a page and a confidence score: the members are added
\* to the text of the record
WithMembers(recordText, memberTexts) ==
    SubSeq(recordText, 1, Len(recordText) - 1) \o <<",">> \o JoinTexts(memberTexts, <<",">>)
        \o <<"}">>
ReportedPage == PairText(KeyPageNumber, <<"9">>)
TextReportedPage ==
    CompactArray(<<WithMembers(RecordText(<<"5">>, <<BS, "a">>), <<ReportedPage>>)>>)
TextScoreZero ==
    CompactArray(<<WithMembers(RecordText(<<"5">>, <<"a">>),
                               <<ReportedPage, PairText(KeyConfidenceScore, <<"0">>)>>),
                   WithMembers(RecordText(<<"6">>, <<"b">>),
                               <<PairText(KeyConfidenceScore, <<"0", ".", "5">>)>>)>>)
\* a record whose page_number is spelled with an escape in the key, and
\* records whose scores are a number too small for a double and 1.50
EscapedReportedPage ==
    PairText(<<"p", "a", "g", "e", BS, "u", "0", "0", "5", "f", "n", "u", "m", "b", "e", "r">>,
             <<"3">>)
TextEscapedPage ==
    CompactArray(<<WithMembers(RecordText(<<"5">>, <<"a">>), <<EscapedReportedPage>>)>>)
TextScoreUnderflow ==
    CompactArray(<<WithMembers(RecordText(<<"5">>, <<"a">>),
                               <<PairText(KeyConfidenceScore,
                                          <<"1", "e", "-", "4", "0", "0">>)>>),
                   WithMembers(RecordText(<<"6">>, <<"b">>),
                               <<PairText(KeyConfidenceScore, <<"1", ".", "5", "0">>)>>)>>)
\* JSON.stringify: the text that serializes a value.  QuoteChar is the
\* spelling of one character inside a string literal.
\* the control characters and the surrogates JSON.stringify writes as \uxxxx
HighSurrogates == {CodeChar(code) : code \in 55296..56319}
LowSurrogates == {CodeChar(code) : code \in 56320..57343}
EscapedCodes == OtherControlCodes \cup (55296..57343)
UnicodeEscapeOf(c) ==
    LET code == CHOOSE x \in EscapedCodes : CodeChar(x) = c
    IN  <<BS, "u", HexChar(code \div 4096), HexChar((code \div 256) % 16),
          HexChar((code \div 16) % 16), HexChar(code % 16)>>

QuoteChar(c) ==
    CASE c = QT -> <<BS, QT>> [] c = BS -> <<BS, BS>> [] c = NL -> <<BS, "n">>
      [] c = CR -> <<BS, "r">> [] c = TAB -> <<BS, "t">> [] c = BKSP -> <<BS, "b">>
      [] c = FF -> <<BS, "f">>
      [] c \in OtherControls -> UnicodeEscapeOf(c)
      [] OTHER -> <<c>>

\* the character at i as stringify writes it: a surrogate that is not half of
\* a pair is written as its escape
QuoteAt(chars, i) ==
    IF \/ /\ chars[i] \in HighSurrogates
          /\ ~(i < Len(chars) /\ chars[i + 1] \in LowSurrogates)
       \/ /\ chars[i] \in LowSurrogates
          /\ ~(i > 1 /\ chars[i - 1] \in HighSurrogates)
    THEN UnicodeEscapeOf(chars[i])
    ELSE QuoteChar(chars[i])
Quote(chars) == StrText(Flatten([i \in 1..Len(chars) |-> QuoteAt(chars, i)]))

LitText(name) ==
    CASE name = "true" -> <<"t", "r", "u", "e">>
      [] name = "false" -> <<"f", "a", "l", "s", "e">>
      [] OTHER -> <<"n", "u", "l", "l">>

\* the members stringify writes: one whose value is undefined is left out
Written(kids) == SelectSeq(kids, LAMBDA m : m.v.t # "undefined")

RECURSIVE Serialize(_)
Serialize(v) ==
    CASE v.t = "str" -> Quote(v.s)
      [] v.t = "num" -> IF v.s \in {Infinity, Signed(TRUE, Infinity)} THEN LitText("null")
                        ELSE IF v.s # <<>> THEN v.s
                        ELSE IF v.n < 0 THEN <<"-">> \o NatToChars(0 - v.n)
                        ELSE NatToChars(v.n)
      [] v.t = "arr" ->
            CompactArray([i \in 1..Len(v.kids) |->
                            IF v.kids[i].v.t = "undefined" THEN LitText("null")
                            ELSE Serialize(v.kids[i].v)])
      [] v.t = "obj" ->
            <<"{">> \o JoinTexts([i \in 1..Len(Written(v.kids)) |->
                                    Quote(Written(v.kids)[i].k) \o <<":">>
                                        \o Serialize(Written(v.kids)[i].v)],
                                 <<",">>) \o <<"}">>
      [] OTHER -> LitText(v.t)

\* well-formed lists of question records: the empty list; a record whose
\* statement holds a quote, a backslash, a line break and a bracket, with
\* options and a score; two records, the first with a page and a score of 0
ListOf(records) == JArr([i \in 1..Len(records) |-> Member(<<>>, records[i])])
QuestionRecord(number, statement, more) ==
    JObj(<<Member(KeyQuestionNumber, JStr(number)),
           Member(KeyQuestionType, JStr(TypeMCQ)),
           Member(KeyQuestionStatement, JStr(statement))>> \o more)
WellFormedLists ==
    <<ListOf(<<>>),
      ListOf(<<QuestionRecord(<<"5">>, <<QT, BS, NL, "]", "a">>,
                              <<Member(KeyOptions, ListOf(<<JStr(<<"x">>), JStr(<<"[">>)>>)),
                                Member(KeyIsContinuation, JLit("false")),
                                Member(KeyConfidenceScore, JNumLit(<<"0", ".", "5">>))>>)>>),
      ListOf(<<QuestionRecord(<<"5">>, <<"a">>,
                              <<Member(KeyPageNumber, JInt(9)),
                                Member(KeyConfidenceScore, JInt(0))>>),
               QuestionRecord(<<"6">>, <<BS, "b">>, <<>>)>>)>>
SerializedLists == [i \in 1..Len(WellFormedLists) |-> Serialize(WellFormedLists[i])]

\* responses with a fenced block and no bracketed span: a record without the
\* brackets of the array (well formed, and with a backslash to repair), no
\* text, prose, a number, a string, null, and brackets the wrong way round
FencedResponses ==
    {Fenced(RecordText(<<"5">>, <<"a">>)), Fenced(RecordText(<<"5">>, <<BS, "a">>)),
     Fenced(<<>>), Fenced(Prose), Fenced(<<"7">>), Fenced(StrText(<<"a">>)),
     Fenced(<<"n", "u", "l", "l">>), Fenced(<<"]", "[">>)}

CallResponses ==
    {TextOneRecord, TextRepairable, TextMultiLineBackslash, Prose, <<>>,
     TextFencedFindings, TextFindings, TextBadFindings, TextNoStatement,
     TextTwoRecords, TextFourRecords, TextReportedPage, TextScoreZero, LongProse}
        \cup FencedResponses
        \cup {TextOtherFindings, TextEmptyFindings, TextQuotaFindings}
        \cup {TextUnendedFindings, TextUnspellableFindings, TextUnspellableNumber}
        \cup {TextEscapedPage, TextScoreUnderflow}
        \cup {SerializedLists[i] : i \in 1..Len(SerializedLists)}

MaxPages == 2
MaxStartPage == 2
\* the pages of the document of the page-memory specification
MaxMemoryPages == 5
PageNumbers ==
    1..(IF MaxStartPage + MaxPages - 1 > MaxMemoryPages
        THEN MaxStartPage + MaxPages - 1 ELSE MaxMemoryPages)

\* the calls that retry, and with them the call that does not
CallKinds == {"structure", "context", "single"}
HarnessKinds == CallKinds \cup {"analyze"}

\* what each kind of call makes of each response text
Decoded ==
    [kind \in HarnessKinds, text \in CallResponses, page \in PageNumbers |->
        Decode(kind, text, page)]

NoResult == [list |-> <<>>, findings |-> JUndefined]
NoText == [got |-> FALSE, text |-> <<>>]

\* The attempt in flight continues from the response text, which decodes to d:
\* the call returns, or what the decoding throws reaches the catch block.
ResponseDecoded(text, d) ==
    /\ callPc = "inflight"
    /\ callText' = [got |-> TRUE, text |-> text]
    /\ currentPdfMemory' = IF callKind = "single"
                           THEN MapSet(currentPdfMemory, callPage, Substring0(text, 1000))
                           ELSE currentPdfMemory
    /\ IF d.error # NoError
       THEN /\ Caught(d.error)
            /\ UNCHANGED callResult
       ELSE /\ callPc' = "returned"
            /\ callResult' = [list |-> d.list, findings |-> d.findings]
            /\ attemptLog' = Logged(attemptLog, "ok")
            /\ callPrompt' = NoPrompt
            /\ inFlight' = inFlight - 1
            /\ UNCHANGED <<callKind, callPage, retryCount, callError, poolVars, callKeys>>
    /\ UNCHANGED <<caller, sharedDescriptions, allQuestions, previousContext,
                   harnessCalls, tasks, runVars, scanVars>>

\* the text a call hands to a JSON.parse whose SyntaxError reaches the catch
\* block of the call
ParsedSource(kind, text) ==
    IF kind = "structure" THEN MatchObject(text).text ELSE MatchArray(text).text

\* what the decoding of the response may come to: what Decode gives, the
\* SyntaxError of JSON.parse with each message the engine may give it
DecodeOutcomes(kind, text, page) ==
    IF Decoded[kind, text, page].error.name = "SyntaxError"
    THEN {Throws(error) : error \in SyntaxErrors(ParsedSource(kind, text))}
    ELSE {Decoded[kind, text, page]}

\* The model answers the attempt in flight with text.
Responds(text) ==
    /\ callPc = "inflight"
    /\ \E d \in DecodeOutcomes(callKind, text, callPage) : ResponseDecoded(text, d)

\* The attempt in flight fails with error (of the model call).
Fails(error) ==
    /\ callPc = "inflight"
    /\ Caught(error)
    /\ UNCHANGED <<callResult, callText, caller, dataVars, harnessCalls, tasks, runVars, scanVars>>

\* The wait of 2 s before the next attempt ends.
BackoffElapses ==
    /\ callPc = "backoff"
    /\ EnterLoop(callKind, callPage, retryCount, attemptLog, inFlight)
    /\ UNCHANGED <<callResult, callText, caller, dataVars, harnessCalls, tasks, runVars, scanVars>>

(***************************************************************************)
(* Part 2c.  The call specification: calls made one after another on the   *)
(* pool of the loaded module, each attempt answered or failed at will.     *)
(***************************************************************************)
MaxCalls == 2
CallErrors == {RateLimitError, OtherCallError}

\* import.meta.env.VITE_GEMINI_API_KEY when the module is loaded: not set (or
\* empty), blank, a key of its own, or a key that is also one of the
\* hard-coded keys
EnvValues == {<<>>, <<SP>>, EnvKey, KeyText(3)}

\* the array of lines 4 to 14: the environment key, then the hard-coded keys,
\* .filter(key => key && key.trim() !== ''), which drops the empty and the
\* blank entries and no repeated one
ConfiguredKeys(env) ==
    SelectSeq(<<env>> \o HardcodedKeys, LAMBDA key : key # <<>> /\ Trim(key) # <<>>)

PoolInit ==
    /\ API_KEYS \in {ConfiguredKeys(env) : env \in EnvValues}
    /\ keyUsageCount = [k \in AllKeys |-> 0]
    /\ apiKey = NoKey
    /\ acquired = 0
    /\ lastAcquire = [k \in AllKeys |-> 0]

CallIdle ==
    /\ callKind = "none"
    /\ callPage = 0
    /\ retryCount = 0
    /\ callPc = "idle"
    /\ callResult = NoResult
    /\ callError = NoError
    /\ attemptLog = NoAttempts
    /\ callText = NoText
    /\ callPrompt = NoPrompt
    /\ inFlight = 0
    /\ callKeys = <<>>

DataInit ==
    /\ sharedDescriptions = <<>>
    /\ allQuestions = <<>>
    /\ previousContext = <<>>
    /\ currentPdfMemory = <<>>

RunInit ==
    /\ run = "none"
    /\ runPc = "idle"
    /\ images = 0
    /\ startPageNumber = 1
    /\ pageIndex = 0
    /\ pageLog = <<>>

\* no call of savePdfQuestions by the save harness: where the call is ("idle",
\* "insert", "returned", "thrown"), its arguments, the error it threw and,
\* as history, the rows it handed to the insert
NoSave == [pc |-> "idle", questions |-> <<>>, year |-> <<>>, error |-> NoError,
           inserted |-> FALSE, rows |-> <<>>]

\* saveAllToDatabase is not running: where it is ("idle", "insert", "saved",
\* "failed"), the entries of questionsByYear from the one being saved on, the
\* course the handler that is running read when it started, the error it
\* caught, the times the save button started it, the edits the user made to
\* the page and, as history, the batches its last run submitted, the course
\* the scan read, the records each PDF of the scan gave and the uploads of
\* the scan
NoManual == [pc |-> "idle", groups |-> <<>>, read |-> "", rows |-> <<>>, error |-> NoError,
             saves |-> 0, edits |-> 0, course |-> "", submitted |-> <<>>, lists |-> <<>>,
             uploads |-> <<>>]

\* what the scan handler read of the component state when it started
NoScanRead == [course |-> "", autoSave |-> TRUE]

\* Array.from({ length: 20 }, (_, i) => ({ file: null, year: '', id: ... })):
\* the upload slots of the page, MaxPdfs of them here, a file as whether the
\* slot has one
MaxPdfs == 2
EmptySlot == [file |-> FALSE, year |-> <<>>]
NoUploads == [i \in 1..MaxPdfs |-> EmptySlot]

\* the calls of the concurrent specification: none has been made
MaxTasks == 2
TaskIds == 1..MaxTasks
IdleTask == [kind |-> "none", page |-> 0, pc |-> "idle", retryCount |-> 0, key |-> NoKey,
             attempts |-> 0, error |-> NoError, result |-> NoResult]
NoTasks == [t \in TaskIds |-> IdleTask]

ScanInit ==
    /\ pdfUploads = NoUploads
    /\ selectedExam = ""
    /\ validPdfs = <<>>
    /\ pdfIndex = 0
    /\ pdfQuestions = <<>>
    /\ allExtractedQuestions = <<>>
    /\ extractedQuestions = <<>>
    /\ isScanning = FALSE
    /\ autoSaveEnabled = TRUE
    /\ selectedCourse = ""
    /\ scanRead = NoScanRead
    /\ pendingInsert = <<>>
    /\ store = <<>>
    /\ save = NoSave
    /\ manual = NoManual

CallInit ==
    /\ PoolInit
    /\ CallIdle
    /\ DataInit
    /\ RunInit
    /\ ScanInit
    /\ caller = "harness"
    /\ harnessCalls = 0
    /\ tasks = NoTasks

\* a call with the default arguments: no earlier question, a new page memory
HarnessCall(kind, page) ==
    /\ caller = "harness"
    /\ callPc = "idle"
    /\ harnessCalls < MaxCalls
    /\ harnessCalls' = harnessCalls + 1
    /\ UNCHANGED tasks
    /\ currentPdfMemory' = <<>>
    /\ callResult' = NoResult
    /\ callText' = NoText
    /\ EnterLoopWith(kind, page, 0, NoAttempts, CallArgs(<<>>, <<>>, <<>>, <<>>), inFlight)
    /\ UNCHANGED <<caller, sharedDescriptions, allQuestions, previousContext, runVars, scanVars>>

\* the caller has the result or the error of the call; the page memory made
\* for the call is dropped with it
HarnessCollect ==
    /\ caller = "harness"
    /\ callPc \in {"returned", "thrown"}
    /\ callKind' = "none"
    /\ callPage' = 0
    /\ retryCount' = 0
    /\ callPc' = "idle"
    /\ callResult' = NoResult
    /\ callError' = NoError
    /\ attemptLog' = NoAttempts
    /\ callText' = NoText
    /\ callPrompt' = NoPrompt
    /\ currentPdfMemory' = <<>>
    /\ callKeys' = <<>>
    /\ UNCHANGED <<caller, harnessCalls, tasks, poolVars, sharedDescriptions, allQuestions,
                   previousContext, runVars, scanVars, inFlight>>

vars == <<poolVars, callVars, dataVars, runVars, scanVars, harnessCalls, tasks>>

CallNext ==
    \/ \E kind \in HarnessKinds, page \in {1, MaxPages} : HarnessCall(kind, page)
    \/ \E text \in CallResponses : Responds(text)
    \/ \E error \in CallErrors : Fails(error)
    \/ BackoffElapses
    \/ HarnessCollect

SpecCall == CallInit /\ [][CallNext]_vars

(***************************************************************************)
(* Part 2d.  The concurrent specification: callers of the module have      *)
(* several calls running at once, each with the default arguments.  The    *)
(* calls are asynchronous functions on one thread: a call runs from one    *)
(* await to the next without another call running in between, so a step    *)
(* of a call is the code between two awaits, and the steps of the calls    *)
(* interleave at will.                                                     *)
(***************************************************************************)
TaskResponses == {TextOneRecord, Prose}

\* The top of the while loop of call t with retryCount = count.
TaskEnterLoop(t, kind, page, count) ==
    IF count >= maxRetries
    THEN /\ tasks' = [tasks EXCEPT ![t] = [@ EXCEPT !.kind = kind, !.page = page,
                                                    !.pc = "thrown", !.retryCount = count,
                                                    !.error = AfterLoopError]]
         /\ UNCHANGED poolVars
    ELSE /\ Acquire
         /\ tasks' = [tasks EXCEPT ![t] = [kind |-> kind, page |-> page, pc |-> "inflight",
                                           retryCount |-> count, key |-> apiKey',
                                           attempts |-> @.attempts + 1,
                                           error |-> NoError, result |-> NoResult]]

\* The catch block of call t, entered with error.
TaskCaught(t, error) ==
    LET count == IF tasks[t].kind = "analyze" THEN tasks[t].retryCount
                 ELSE tasks[t].retryCount + 1
        d == CatchDecision(tasks[t].kind, error, count, maxRetries)
    IN  IF d.next = "retry"
        THEN TaskEnterLoop(t, tasks[t].kind, tasks[t].page, count)
        ELSE /\ tasks' = [tasks EXCEPT ![t] =
                            [@ EXCEPT !.pc = IF d.next = "backoff" THEN "backoff" ELSE "thrown",
                                      !.retryCount = count, !.error = d.error]]
             /\ UNCHANGED poolVars

\* A caller calls the module while other calls may be awaiting.
TaskStart(t, kind, page) ==
    /\ tasks[t].pc = "idle"
    /\ TaskEnterLoop(t, kind, page, 0)
    /\ UNCHANGED <<callVars, dataVars, runVars, scanVars, harnessCalls>>

\* The model answers the attempt of call t with text.
TaskResponds(t, text) ==
    /\ tasks[t].pc = "inflight"
    /\ \E d \in DecodeOutcomes(tasks[t].kind, text, tasks[t].page) :
           IF d.error # NoError
           THEN TaskCaught(t, d.error)
           ELSE /\ tasks' = [tasks EXCEPT ![t] =
                               [@ EXCEPT !.pc = "returned",
                                         !.result = [list |-> d.list, findings |-> d.findings]]]
                /\ UNCHANGED poolVars
    /\ UNCHANGED <<callVars, dataVars, runVars, scanVars, harnessCalls>>

\* The attempt of call t fails with error (of the model call).
TaskFails(t, error) ==
    /\ tasks[t].pc = "inflight"
    /\ TaskCaught(t, error)
    /\ UNCHANGED <<callVars, dataVars, runVars, scanVars, harnessCalls>>

\* The wait of 2 s of call t ends.
TaskBackoffElapses(t) ==
    /\ tasks[t].pc = "backoff"
    /\ TaskEnterLoop(t, tasks[t].kind, tasks[t].page, tasks[t].retryCount)
    /\ UNCHANGED <<callVars, dataVars, runVars, scanVars, harnessCalls>>

ConcurrentNext ==
    \/ \E t \in TaskIds, kind \in HarnessKinds : TaskStart(t, kind, 1)
    \/ \E t \in TaskIds, text \in TaskResponses : TaskResponds(t, text)
    \/ \E t \in TaskIds, error \in CallErrors : TaskFails(t, error)
    \/ \E t \in TaskIds : TaskBackoffElapses(t)

SpecConcurrent == CallInit /\ [][ConcurrentNext]_vars

(***************************************************************************)
(* Part 3.  The runs.  enhancedQuestionExtraction makes a first pass of     *)
(* analyzePageStructure over the pages, then a second pass of              *)
(* extractQuestionsWithContext; the page loop of scanAndExtractQuestions   *)
(* calls performExtraction for each page of each PDF.  A step of a run is  *)
(* the code between two awaits: from the end of a call, or of a delay, to  *)
(* the model request of the next call, to the next delay, or to the end.   *)
(***************************************************************************)
\* const pageNum = startPageNumber + i
PageNum(i) == startPageNumber + i

\* if (pageAnalysis.sharedDescription) sharedDescriptions.set(pageNum, ...)
WithDescription(descriptions, pageNum, pageAnalysis) ==
    IF Truthy(GetProp(pageAnalysis, KeySharedDescription))
    THEN MapSet(descriptions, pageNum, GetProp(pageAnalysis, KeySharedDescription))
    ELSE descriptions

\* a catch block that gives up the pages left
AbortAfterError(i, n) == n

\* the catch block of a page in either pass: the loop goes on with the next i
NextIndexAfterError(i, n) == i + 1

\* a push that puts the new records before the old
Unshift(list, items) == items \o list

\* list.push(...items)
Push(list, items) == list \o items

\* a continuation that does not wait: it runs once the call has been made
CallStarted == callPc \in {"inflight", "backoff", "returned", "thrown"}

\* await: the continuation runs once the call has returned or thrown
CallSettled == callPc \in {"returned", "thrown"}

\* no call is in progress
CallEnds ==
    /\ callKind' = "none"
    /\ callPage' = 0
    /\ retryCount' = 0
    /\ callPc' = "idle"
    /\ callError' = NoError
    /\ attemptLog' = NoAttempts
    /\ callPrompt' = NoPrompt
    /\ callKeys' = <<>>
    /\ UNCHANGED inFlight

\* one loop over the pages, each page going through the structural call and
\* then the extraction call before the next page
TwoPassInterleaved(pass, next, descriptions, questions) ==
    IF pass = "firstPass" /\ next > 0
    THEN /\ runPc' = "secondPass"
         /\ pageIndex' = next - 1
         /\ EnterLoopWith("context", PageNum(next - 1), 0, NoAttempts,
                          CallArgs(descriptions, questions, <<>>, <<>>), inFlight)
    ELSE IF next < images
    THEN /\ runPc' = "firstPass"
         /\ pageIndex' = next
         /\ EnterLoopWith("structure", PageNum(next), 0, NoAttempts,
                          CallArgs(descriptions, questions, <<>>, <<>>), inFlight)
    ELSE /\ runPc' = "done"
         /\ pageIndex' = next
         /\ CallEnds
         /\ UNCHANGED poolVars

\* The loops of enhancedQuestionExtraction from the iteration next of the pass
\* on, up to the first await: the call of that page, or, when the pass has no
\* page left, the first call of the second pass or the return.
TwoPassAdvance(pass, next, descriptions, questions) ==
    IF next < images
    THEN /\ runPc' = pass
         /\ pageIndex' = next
         /\ EnterLoopWith(IF pass = "firstPass" THEN "structure" ELSE "context",
                          PageNum(next), 0, NoAttempts,
                          CallArgs(descriptions, questions, <<>>, <<>>), inFlight)
    ELSE IF pass = "firstPass" /\ images > 0
    THEN /\ runPc' = "secondPass"
         /\ pageIndex' = 0
         /\ EnterLoopWith("context", PageNum(0), 0, NoAttempts,
                          CallArgs(descriptions, questions, <<>>, <<>>), inFlight)
    ELSE /\ runPc' = "done"
         /\ pageIndex' = next
         /\ CallEnds
         /\ UNCHANGED poolVars

\* enhancedQuestionExtraction(images, startPageNumber) is called
TwoPassStart(n, start) ==
    /\ run = "none"
    /\ run' = "twopass"
    /\ caller' = "twopass"
    /\ images' = n
    /\ startPageNumber' = start
    /\ sharedDescriptions' = <<>>
    /\ allQuestions' = <<>>
    /\ pageLog' = <<>>
    /\ callResult' = NoResult
    /\ callText' = NoText
    /\ IF n > 0
       THEN /\ runPc' = "firstPass"
            /\ pageIndex' = 0
            /\ EnterLoopWith("structure", start, 0, NoAttempts,
                             CallArgs(<<>>, <<>>, <<>>, <<>>), inFlight)
       ELSE /\ runPc' = "done"
            /\ pageIndex' = 0
            /\ CallEnds
            /\ UNCHANGED poolVars
    /\ UNCHANGED <<previousContext, currentPdfMemory, harnessCalls, tasks, scanVars>>

\* the entry of the page log for the call that has ended
LogEntry(pdf) ==
    [pdf |-> pdf, pass |-> runPc, page |-> callPage, threw |-> callPc = "thrown",
     list |-> callResult.list, findings |-> callResult.findings]

\* The call of a page has returned or thrown: the rest of the try block, or
\* the catch block, and on to the next await.
TwoPassResume ==
    /\ caller = "twopass"
    /\ CallSettled
    /\ pageLog' = Append(pageLog, LogEntry(0))
    /\ callResult' = NoResult
    /\ callText' = NoText
    /\ sharedDescriptions' =
          IF runPc = "firstPass" /\ callPc = "returned"
          THEN WithDescription(sharedDescriptions, PageNum(pageIndex), callResult.findings)
          ELSE sharedDescriptions
    /\ allQuestions' =
          IF runPc = "secondPass" /\ callPc = "returned"
          THEN Push(allQuestions, callResult.list)
          ELSE allQuestions
    /\ IF callPc = "thrown"
       THEN TwoPassAdvance(runPc, NextIndexAfterError(pageIndex, images),
                           sharedDescriptions', allQuestions')
       ELSE IF pageIndex < images - 1
       THEN /\ runPc' = IF runPc = "firstPass" THEN "firstDelay" ELSE "secondDelay"
            /\ CallEnds
            /\ UNCHANGED <<pageIndex, poolVars>>
       ELSE TwoPassAdvance(runPc, pageIndex + 1, sharedDescriptions', allQuestions')
    /\ UNCHANGED <<run, caller, images, startPageNumber, previousContext,
                   currentPdfMemory, harnessCalls, tasks, scanVars>>

\* the delay after the call of a page (5 s in the first pass, 10 s in the
\* second) has passed
TwoPassDelayElapses ==
    /\ caller = "twopass"
    /\ runPc \in {"firstDelay", "secondDelay"}
    /\ TwoPassAdvance(IF runPc = "firstDelay" THEN "firstPass" ELSE "secondPass",
                      pageIndex + 1, sharedDescriptions, allQuestions)
    /\ UNCHANGED <<run, caller, images, startPageNumber, pageLog, callResult, callText,
                   dataVars, harnessCalls, tasks, scanVars>>

(***************************************************************************)
(* Part 3b.  scanAndExtractQuestions and savePdfQuestions.  The progress   *)
(* display and the toasts are left out.                                    *)
(***************************************************************************)
TypeTags == {<<"M", "C", "Q">>, <<"M", "S", "Q">>, <<"N", "A", "T">>,
             <<"S", "u", "b", "j", "e", "c", "t", "i", "v", "e">>}

\* the value of the digits chars[i..j]
RECURSIVE DigitsValue(_, _, _)
DigitsValue(chars, i, j) ==
    IF j < i THEN 0 ELSE 10 * DigitsValue(chars, i, j - 1) + DigitVal(chars[j])

\* the value of the hexadecimal digits chars[i..j]
RECURSIVE HexDigitsValue(_, _, _)
HexDigitsValue(chars, i, j) ==
    IF j < i THEN 0 ELSE 16 * HexDigitsValue(chars, i, j - 1) + HexVal(chars[j])

\* parseInt(year): white space, a sign, and then the digits of base 16 after
\* 0x or 0X, else the decimal digits; NaN without a digit
NaN == [nan |-> TRUE, n |-> 0]
ParseIntFrom(chars, neg, hex, b, e) ==
    IF e = b THEN NaN
    ELSE [nan |-> FALSE,
          n |-> (IF neg THEN 0 - 1 ELSE 1)
                    * (IF hex THEN HexDigitsValue(chars, b, e - 1)
                       ELSE DigitsValue(chars, b, e - 1))]
ParseIntSigned(chars, neg, b) ==
    IF CharAt(chars, b) = "0" /\ CharAt(chars, b + 1) \in {"x", "X"}
    THEN ParseIntFrom(chars, neg, TRUE, b + 2, SkipSet(chars, HexDigits, b + 2))
    ELSE ParseIntFrom(chars, neg, FALSE, b, SkipSet(chars, Digits, b))
ParseIntAt(chars, a) ==
    ParseIntSigned(chars, CharAt(chars, a) = "-",
                   IF CharAt(chars, a) \in {"+", "-"} THEN a + 1 ELSE a)
ParseInt(chars) == ParseIntAt(chars, SkipSet(chars, RegexWs, 1))

\* pdfUploads.filter(upload => upload.file && upload.year.trim() !== '')
getValidPdfs(uploads) ==
    SelectSeq(uploads, LAMBDA upload : upload.file /\ Trim(upload.year) # <<>>)

\* the texts of a year the runs and the calls of savePdfQuestions are given,
\* and what parseInt makes of each
YearTexts == {<<"2", "0", "2", "4">>, <<"2", "0", "3", "0">>}
SaveYears ==
    {<<"1", "9", "9", "9">>, <<"2", "0", "0", "0">>, <<"2", "0", "2", "4">>,
     <<"2", "0", "3", "0">>, <<"2", "0", "3", "1">>, <<"0", "x", "7", "E", "8">>}
\* the page numbers of the records of the manual-save specification, and the
\* keys saveAllToDatabase groups them under
ManualPages == {1, 2, 2024}
Unknown == <<"u", "n", "k", "n", "o", "w", "n">>
ManualKeys == {NatToChars(page) : page \in ManualPages} \cup {Unknown}
ParsedYears == [year \in YearTexts \cup SaveYears \cup ManualKeys |-> ParseInt(year)]

\* String(v) of an object without a toString of its own
ObjectObject ==
    <<"[", "o", "b", "j", "e", "c", "t", " ", "O", "b", "j", "e", "c", "t", "]">>
KeyLength == <<"l", "e", "n", "g", "t", "h">>

\* How join spells an element: nothing for null and undefined, String(v) for
\* the rest, which for an array is its elements joined by commas.
RECURSIVE JoinSpelling(_)
JoinSpelling(v) ==
    CASE v.t = "str" -> v.s
      [] v.t \in {"null", "undefined"} -> <<>>
      [] v.t = "true" -> <<"t", "r", "u", "e">>
      [] v.t = "false" -> <<"f", "a", "l", "s", "e">>
      [] v.t = "num" /\ v.s # <<>> -> v.s
      [] v.t = "num" /\ v.n < 0 -> <<"-">> \o NatToChars(0 - v.n)
      [] v.t = "num" -> NatToChars(v.n)
      [] v.t = "arr" -> JoinTexts([i \in 1..Len(v.kids) |-> JoinSpelling(v.kids[i].v)], <<",">>)
      [] OTHER -> ObjectObject

\* whether a StrDecimalLiteral, sign included, spells a number above 0: the
\* mantissa has a digit, the text ends with the literal, and the number does
\* not round to 0
DecimalPositive(t, start, intEnd, fracEnd) ==
    /\ CharAt(t, 1) # "-"
    /\ intEnd > start \/ fracEnd > intEnd + 1
    /\ ExpEnd(t, fracEnd) = Len(t) + 1
    /\ ~RoundsToZero(Decimal(TokenParts(t, start, intEnd, fracEnd)))
DecimalPositiveFrom(t, start, intEnd) ==
    DecimalPositive(t, start, intEnd,
                    IF CharAt(t, intEnd) = "." THEN SkipSet(t, Digits, intEnd + 1) ELSE intEnd)

\* whether the digits after the prefix 0x, 0o or 0b are of the base, and one
\* of them is not 0
RadixPositive(t, digits) ==
    /\ Len(t) > 2
    /\ \A i \in 3..Len(t) : t[i] \in digits
    /\ \E i \in 3..Len(t) : t[i] # "0"

\* StringToNumber(t) > 0 for a text t without white space at its ends
StringPositive(t) ==
    IF t \in {Infinity, <<"+">> \o Infinity} THEN TRUE
    ELSE IF CharAt(t, 1) = "0" /\ CharAt(t, 2) \in {"x", "X"} THEN RadixPositive(t, HexDigits)
    ELSE IF CharAt(t, 1) = "0" /\ CharAt(t, 2) \in {"o", "O"}
    THEN RadixPositive(t, {"0", "1", "2", "3", "4", "5", "6", "7"})
    ELSE IF CharAt(t, 1) = "0" /\ CharAt(t, 2) \in {"b", "B"}
    THEN RadixPositive(t, {"0", "1"})
    ELSE DecimalPositiveFrom(t, IF CharAt(t, 1) \in {"+", "-"} THEN 2 ELSE 1,
                             SkipSet(t, Digits, IF CharAt(t, 1) \in {"+", "-"} THEN 2 ELSE 1))

\* v > 0: ToNumber(v) is above 0.  An array is taken by its spelling; false
\* and null are 0, undefined and an object are NaN.
GreaterThanZero(v) ==
    CASE v.t = "num" -> IF v.s = <<>> THEN v.n > 0 ELSE v.s[1] # "-"
      [] v.t = "true" -> TRUE
      [] v.t = "str" -> StringPositive(Trim(v.s))
      [] v.t = "arr" -> ~SpellingThrows(v) /\ StringPositive(Trim(JoinSpelling(v)))
      [] OTHER -> FALSE

\* v.length of a value that is neither null nor undefined
LengthOf(v) ==
    CASE v.t = "str" -> JInt(Len(v.s))
      [] v.t = "arr" -> JInt(Len(v.kids))
      [] v.t = "obj" -> GetProp(v, KeyLength)
      [] OTHER -> JUndefined

\* q.options.length > 0 throws a TypeError: the length is a value String()
\* throws on
OptionsThrows(options) == Truthy(options) /\ SpellingThrows(LengthOf(options))

\* q.options && q.options.length > 0 ? q.options : null
OptionsOrNull(options) ==
    IF Truthy(options) /\ GreaterThanZero(LengthOf(options)) THEN options ELSE JNull

\* the row savePdfQuestions makes of a record
InsertRow(q, course, year) ==
    [question_type |-> GetProp(q, KeyQuestionType),
     question_statement |-> GetProp(q, KeyQuestionStatement),
     options |-> OptionsOrNull(GetProp(q, KeyOptions)),
     course_id |-> course,
     year |-> ParsedYears[year],
     categorized |-> FALSE]

\* evaluating the filter on the row throws: trim of a statement that is no string
RowThrows(row) == Truthy(row.question_statement) /\ row.question_statement.t # "str"

\* q.year > 2000 && q.year < 2030
YearInRange(y) == y > 2000 /\ y < 2030

\* the predicate of the filter
RowValid(row) ==
    /\ Truthy(row.question_statement)
    /\ row.question_statement.t = "str"
    /\ Trim(row.question_statement.s) # <<>>
    /\ row.question_type.t = "str"
    /\ row.question_type.s \in TypeTags
    /\ row.course_id # ""
    /\ ~row.year.nan
    /\ row.year.n # 0
    /\ YearInRange(row.year.n)

\* savePdfQuestions(questions, year) up to its await: the rows it submits, or
\* the error it throws before
SaveBatch(questions, course, year) ==
    LET rows == [i \in 1..Len(questions) |-> InsertRow(questions[i], course, year)]
        valid == SelectSeq(rows, RowValid)
    IN  IF \/ \E i \in 1..Len(questions) : OptionsThrows(GetProp(questions[i], KeyOptions))
           \/ \E i \in 1..Len(rows) : RowThrows(rows[i])
        THEN [threw |-> TRUE, error |-> JsTypeError, rows |-> <<>>]
        ELSE IF valid = <<>> THEN [threw |-> TRUE, error |-> NoValidError, rows |-> <<>>]
        ELSE [threw |-> FALSE, error |-> NoError, rows |-> valid]

\* questions.map(q => q.question_statement).join(' ') throws a TypeError
JoinThrows(questions) ==
    \E i \in 1..Len(questions) : SpellingThrows(GetProp(questions[i], KeyQuestionStatement))

\* questions.map(q => q.question_statement).join(' ')
JoinStatements(questions) ==
    JoinTexts([i \in 1..Len(questions) |->
                  JoinSpelling(GetProp(questions[i], KeyQuestionStatement))], <<SP>>)

\* the loop over the PDFs, were the handler to end without setIsScanning(false)
ScanNeverResets(next, extracted) ==
    /\ pdfIndex' = next
    /\ IF next < Len(validPdfs)
       THEN /\ runPc' = "convert"
            /\ UNCHANGED <<extractedQuestions, isScanning>>
       ELSE /\ runPc' = "done"
            /\ extractedQuestions' = extracted
            /\ UNCHANGED isScanning

\* The loop over the PDFs from the iteration next on, up to the first await:
\* the rasterization of that PDF, or the end of the handler.
ScanAdvance(next, extracted) ==
    /\ pdfIndex' = next
    /\ IF next < Len(validPdfs)
       THEN /\ runPc' = "convert"
            /\ UNCHANGED <<extractedQuestions, isScanning>>
       ELSE /\ runPc' = "done"
            /\ extractedQuestions' = extracted
            /\ isScanning' = FALSE

\* scanAndExtractQuestions after its guard, up to its first await, the page
\* holding the uploads, the course and the auto-save setting given: the
\* handler keeps what it read of them to its end
ScanBegins(uploads, course, autoSave) ==
    /\ run' = "scan"
    /\ caller' = "scan"
    /\ validPdfs' = getValidPdfs(uploads)
    /\ scanRead' = [course |-> course, autoSave |-> autoSave]
    /\ isScanning' = TRUE
    /\ extractedQuestions' = <<>>
    /\ allExtractedQuestions' = <<>>
    /\ pdfIndex' = 0
    /\ runPc' = "convert"
    /\ pageLog' = <<>>
    /\ UNCHANGED <<poolVars, callState, dataVars, images, startPageNumber,
                   pageIndex, pdfQuestions, pendingInsert, store, harnessCalls, tasks, save>>

\* The user starts the scan, the page holding the uploads and the selections
\* given: the handler up to its first await.
ScanStart(uploads, exam, course, autoSave) ==
    /\ run = "none"
    /\ IF getValidPdfs(uploads) = <<>> \/ exam = "" \/ course = ""
       THEN UNCHANGED vars
       ELSE /\ pdfUploads' = uploads
            /\ selectedExam' = exam
            /\ selectedCourse' = course
            /\ autoSaveEnabled' = autoSave
            /\ ScanBegins(uploads, course, autoSave)
            /\ UNCHANGED manual

\* convertPdfToImages has rejected: the catch block of the PDF
ConvertFails ==
    /\ caller = "scan"
    /\ runPc = "convert"
    /\ ScanAdvance(pdfIndex + 1, allExtractedQuestions)
    /\ UNCHANGED <<poolVars, callState, caller, dataVars, run, images, startPageNumber,
                   pageIndex, pageLog, pdfUploads, selectedExam,
                   validPdfs, pdfQuestions, allExtractedQuestions,
                   autoSaveEnabled, scanRead, selectedCourse, pendingInsert, store,
                   harnessCalls, tasks,
                   save, manual>>

\* the PDF is done with, saved or not: the delay before the next PDF, or on
AfterSave(extracted) ==
    IF pdfIndex < Len(validPdfs) - 1
    THEN /\ runPc' = "pdfDelay"
         /\ UNCHANGED <<pdfIndex, extractedQuestions, isScanning>>
    ELSE ScanAdvance(pdfIndex + 1, extracted)

\* after the page loop: the records of the PDF join the total and, with
\* auto-save on, savePdfQuestions runs up to its insert
AfterPages(questions) ==
    /\ allExtractedQuestions' = Push(allExtractedQuestions, questions)
    /\ IF Len(questions) > 0 /\ scanRead.autoSave
       THEN LET batch == SaveBatch(questions, scanRead.course, validPdfs[pdfIndex + 1].year)
            IN  IF batch.threw
                THEN /\ ScanAdvance(pdfIndex + 1, allExtractedQuestions')
                     /\ UNCHANGED pendingInsert
                ELSE /\ runPc' = "insert"
                     /\ pendingInsert' = batch.rows
                     /\ UNCHANGED <<pdfIndex, extractedQuestions, isScanning>>
       ELSE /\ AfterSave(allExtractedQuestions')
            /\ UNCHANGED pendingInsert

\* convertPdfToImages has resolved with n images, previous and memory being
\* the previousContext and the page memory of the page loop: the loop up to
\* the model request of page 1 or, without an image, the code after the loop
\* up to its first await
ConvertedTo(n, previous, memory) ==
    /\ images' = n
    /\ pdfQuestions' = <<>>
    /\ previousContext' = previous
    /\ currentPdfMemory' = memory
    /\ pageIndex' = 0
    /\ IF n = 0
       THEN /\ AfterPages(<<>>)
            /\ UNCHANGED <<poolVars, callState>>
       ELSE /\ runPc' = "page"
            /\ callResult' = NoResult
            /\ callText' = NoText
            /\ EnterLoopWith("single", 1, 0, NoAttempts,
                             CallArgs(<<>>, <<>>, previous, memory), inFlight)
            /\ UNCHANGED <<pdfIndex, allExtractedQuestions, extractedQuestions, isScanning,
                           pendingInsert>>
    /\ UNCHANGED <<run, caller, startPageNumber, pageLog, sharedDescriptions, allQuestions,
                   pdfUploads, selectedExam,
                   validPdfs, autoSaveEnabled, scanRead, selectedCourse, store, harnessCalls, tasks,
                   save, manual>>

\* a page loop whose previousContext and page memory are those the PDF before
\* left
ConvertKeepsMemory(n) ==
    /\ caller = "scan"
    /\ runPc = "convert"
    /\ ConvertedTo(n, previousContext, currentPdfMemory)

\* convertPdfToImages has resolved with n images: the page loop starts with
\* let previousContext = '' and a new Map
ConvertReturns(n) ==
    /\ caller = "scan"
    /\ runPc = "convert"
    /\ ConvertedTo(n, <<>>, <<>>)

\* performExtraction has returned or thrown for the page: the rest of the try
\* block or the catch block of the page, and on to the next await
ScanPageResume ==
    /\ caller = "scan"
    /\ CallSettled
    /\ pageLog' = Append(pageLog, LogEntry(pdfIndex))
    /\ pdfQuestions' = IF callPc = "returned" /\ Len(callResult.list) > 0
                       THEN Push(pdfQuestions, callResult.list) ELSE pdfQuestions
    /\ previousContext' = IF /\ callPc = "returned"
                             /\ Len(callResult.list) > 0
                             /\ ~JoinThrows(callResult.list)
                          THEN JoinStatements(callResult.list) ELSE previousContext
    /\ CallEnds
    /\ callResult' = NoResult
    /\ callText' = NoText
    /\ IF pageIndex < images - 1
       THEN /\ runPc' = "pageDelay"
            /\ UNCHANGED <<allExtractedQuestions, pendingInsert, pdfIndex,
                           extractedQuestions, isScanning>>
       ELSE AfterPages(pdfQuestions')
    /\ UNCHANGED <<poolVars, caller, run, images, startPageNumber, pageIndex,
                   sharedDescriptions, allQuestions, currentPdfMemory, pdfUploads, selectedExam,
                   validPdfs,
                   autoSaveEnabled, scanRead, selectedCourse, store, harnessCalls, tasks, save,
                   manual>>

\* the delay of 10 s between two pages has passed
PageDelayElapses ==
    /\ caller = "scan"
    /\ runPc = "pageDelay"
    /\ pageIndex' = pageIndex + 1
    /\ runPc' = "page"
    /\ EnterLoop("single", pageIndex + 2, 0, NoAttempts, inFlight)
    /\ UNCHANGED <<callResult, callText, caller, dataVars, run, images, startPageNumber,
                   pageLog, scanVars, harnessCalls, tasks>>

\* the insert has resolved without an error
InsertReturns ==
    /\ caller = "scan"
    /\ runPc = "insert"
    /\ store' = Append(store, pendingInsert)
    /\ pendingInsert' = <<>>
    /\ AfterSave(allExtractedQuestions)
    /\ UNCHANGED <<poolVars, callState, caller, dataVars, run, images, startPageNumber,
                   pageIndex, pageLog, pdfUploads, selectedExam,
                   validPdfs, pdfQuestions, allExtractedQuestions,
                   autoSaveEnabled, scanRead, selectedCourse, harnessCalls, tasks, save, manual>>

\* the insert has resolved with an error: savePdfQuestions throws, to the
\* catch block of the PDF
InsertFails ==
    /\ caller = "scan"
    /\ runPc = "insert"
    /\ pendingInsert' = <<>>
    /\ ScanAdvance(pdfIndex + 1, allExtractedQuestions)
    /\ UNCHANGED <<poolVars, callState, caller, dataVars, run, images, startPageNumber,
                   pageIndex, pageLog, pdfUploads, selectedExam,
                   validPdfs, pdfQuestions, allExtractedQuestions,
                   autoSaveEnabled, scanRead, selectedCourse, store, harnessCalls, tasks, save,
                   manual>>

\* the delay of 5 s between two PDFs has passed
PdfDelayElapses ==
    /\ caller = "scan"
    /\ runPc = "pdfDelay"
    /\ ScanAdvance(pdfIndex + 1, allExtractedQuestions)
    /\ UNCHANGED <<poolVars, callState, caller, dataVars, run, images, startPageNumber,
                   pageIndex, pageLog, pdfUploads, selectedExam,
                   validPdfs, pdfQuestions, allExtractedQuestions,
                   autoSaveEnabled, scanRead, selectedCourse, pendingInsert, store,
                   harnessCalls, tasks,
                   save, manual>>

(***************************************************************************)
(* Part 3c.  The specification of the runs: one run, of either kind, on    *)
(* the pool of the loaded module.                                          *)
(***************************************************************************)
\* the slots of the page when the scan starts: uploads with a file and a
\* year in the first slots, the other slots empty
FilledSlots(uploads) ==
    [i \in 1..MaxPdfs |-> IF i <= Len(uploads) THEN uploads[i] ELSE EmptySlot]
Uploads ==
    {FilledSlots(uploads) :
        uploads \in UNION {[1..n -> [file : {TRUE}, year : YearTexts]] : n \in 0..MaxPdfs}}
Selections == {"", "id1"}

\* The model in a run: it answers the structural prompt with findings, good
\* or bad, or with prose, and an extraction prompt with an array or with
\* prose (of up to four records in the second pass); a call is answered at
\* its first attempt, or every attempt of it fails with the same error.
ResponsesTo(kind) ==
    IF kind = "structure"
    THEN {TextFindings, TextBadFindings, TextUnspellableFindings, Prose}
    ELSE IF kind = "context"
    THEN {TextOneRecord, TextTwoRecords, TextFourRecords, TextNoStatement,
          TextUnspellableNumber, Prose}
    ELSE {TextOneRecord, TextTwoRecords, TextNoStatement, Prose}

RunResponds(text) ==
    /\ retryCount = 0
    /\ text \in ResponsesTo(callKind)
    /\ Responds(text)

RunFails(error) ==
    /\ retryCount = 0 \/ attemptLog[error.name] > 0
    /\ Fails(error)

Init ==
    /\ PoolInit
    /\ CallIdle
    /\ DataInit
    /\ RunInit
    /\ ScanInit
    /\ caller = "none"
    /\ harnessCalls = 0
    /\ tasks = NoTasks

Next ==
    \/ \E n \in 0..MaxPages, start \in 1..MaxStartPage : TwoPassStart(n, start)
    \/ TwoPassResume
    \/ TwoPassDelayElapses
    \/ \E uploads \in Uploads, exam \in Selections, course \in Selections,
          autoSave \in BOOLEAN : ScanStart(uploads, exam, course, autoSave)
    \/ \E n \in 0..MaxPages : ConvertReturns(n)
    \/ ConvertFails
    \/ ScanPageResume
    \/ PageDelayElapses
    \/ InsertReturns
    \/ InsertFails
    \/ PdfDelayElapses
    \/ \E text \in CallResponses : RunResponds(text)
    \/ \E error \in CallErrors : RunFails(error)
    \/ BackoffElapses

Spec == Init /\ [][Next]_vars

\* Every external operation ends: a model request is answered or fails, a
\* rasterization and an insert resolve or reject, a timer fires, and the
\* continuation of an await that has ended runs.
ExternalEnds ==
    \/ \E text \in CallResponses : RunResponds(text)
    \/ \E error \in CallErrors : RunFails(error)
    \/ \E n \in 0..MaxPages : ConvertReturns(n)
    \/ ConvertFails
    \/ InsertReturns
    \/ InsertFails
TimerFires == BackoffElapses \/ PageDelayElapses \/ PdfDelayElapses \/ TwoPassDelayElapses
Continues == ScanPageResume \/ TwoPassResume

FairSpec ==
    Spec /\ WF_vars(ExternalEnds) /\ WF_vars(TimerFires) /\ WF_vars(Continues)

(***************************************************************************)
(* Part 3e.  The page-memory specification: the scan of one PDF of up to    *)
(* MaxMemoryPages pages without auto-save, the model answering a page with *)
(* prose, short or long, or with an array, or failing every attempt.       *)
(***************************************************************************)
MemoryUploads == FilledSlots(<<[file |-> TRUE, year |-> <<"2", "0", "2", "4">>]>>)
MemoryResponses == {Prose, LongProse, TextOneRecord}

\* a call is answered at its first attempt
MemoryResponds(text) ==
    /\ retryCount = 0
    /\ Responds(text)

MemoryNext ==
    \/ ScanStart(MemoryUploads, "id1", "id1", FALSE)
    \/ \E n \in 0..MaxMemoryPages : ConvertReturns(n)
    \/ ScanPageResume
    \/ PageDelayElapses
    \/ \E text \in MemoryResponses : MemoryResponds(text)
    \/ RunFails(OtherCallError)

SpecMemory == Init /\ [][MemoryNext]_vars

(***************************************************************************)
(* Part 3g.  The shared-description specification: a two-pass run of up to *)
(* MaxDescribedPages pages from page 1, the model answering a structural   *)
(* prompt with findings that hold one of two descriptions, an empty        *)
(* description or a malformed one, or with prose, and an extraction prompt *)
(* with an array or with prose, or failing every attempt.                  *)
(***************************************************************************)
MaxDescribedPages == 3

DescriptionResponsesTo(kind) ==
    IF kind = "structure"
    THEN {TextFindings, TextOtherFindings, TextEmptyFindings, TextBadFindings,
          TextUnspellableFindings, Prose}
    ELSE {TextOneRecord, TextUnspellableNumber, Prose}

\* a call is answered at its first attempt
DescriptionResponds(text) ==
    /\ retryCount = 0
    /\ text \in DescriptionResponsesTo(callKind)
    /\ Responds(text)

DescriptionNext ==
    \/ \E n \in 1..MaxDescribedPages : TwoPassStart(n, 1)
    \/ TwoPassResume
    \/ TwoPassDelayElapses
    \/ \E text \in CallResponses : DescriptionResponds(text)
    \/ RunFails(OtherCallError)

SpecDescriptions == Init /\ [][DescriptionNext]_vars

(***************************************************************************)
(* Part 3f.  saveAllToDatabase, and the manual-save specification: a scan   *)
(* without auto-save has ended, of one or two PDFs, and the user saves the  *)
(* records shown, up to MaxManualSaves times, and edits the questions, the *)
(* upload slots and the selections or starts the scan again, up to         *)
(* MaxEdits times.  The scan that has ended is not kept: a record of page  *)
(* 2024 comes from a PDF of that many pages.                                *)
(***************************************************************************)
\* q.page_number?.toString() || 'unknown'
PageKey(q) ==
    IF IsNullish(GetProp(q, KeyPageNumber)) \/ JoinSpelling(GetProp(q, KeyPageNumber)) = <<>>
    THEN Unknown
    ELSE JoinSpelling(GetProp(q, KeyPageNumber))

\* questionsByYear.get(year).push(q), after set(year, []) for a new key
GroupPut(groups, year, q) ==
    IF \E i \in 1..Len(groups) : groups[i].year = year
    THEN [i \in 1..Len(groups) |->
             IF groups[i].year = year
             THEN [year |-> year, questions |-> Append(groups[i].questions, q)]
             ELSE groups[i]]
    ELSE Append(groups, [year |-> year, questions |-> <<q>>])

\* extractedQuestions.forEach(...): the entries of questionsByYear, in order,
\* from the question at position i on
RECURSIVE GroupFrom(_, _, _)
GroupFrom(questions, i, groups) ==
    IF i > Len(questions) THEN groups
    ELSE GroupFrom(questions, i + 1, GroupPut(groups, PageKey(questions[i]), questions[i]))
GroupByYear(questions) == GroupFrom(questions, 1, <<>>)

\* extractedQuestions.forEach(...) throws a TypeError: a page_number whose
\* toString throws
GroupThrows(questions) ==
    \E i \in 1..Len(questions) : SpellingThrows(GetProp(questions[i], KeyPageNumber))

\* The loop over the entries of questionsByYear from the entry at the head of
\* groups on, up to the first await: the insert of that entry, the catch
\* block when savePdfQuestions throws before, or the end of the try block,
\* where the questions, the uploads and the selection are reset.
ManualSaveWith(m, groups, batch) ==
    IF groups = <<>>
    THEN /\ manual' = [m EXCEPT !.pc = "saved", !.groups = <<>>, !.rows = <<>>]
         /\ extractedQuestions' = <<>>
         /\ pdfUploads' = NoUploads
         /\ selectedExam' = ""
         /\ selectedCourse' = ""
    ELSE IF batch.threw
    THEN /\ manual' = [m EXCEPT !.pc = "failed", !.groups = <<>>, !.rows = <<>>,
                                 !.error = batch.error]
         /\ UNCHANGED <<extractedQuestions, pdfUploads, selectedExam, selectedCourse>>
    ELSE /\ manual' = [m EXCEPT !.pc = "insert", !.groups = groups, !.rows = batch.rows,
                                 !.submitted = Append(@, batch.rows)]
         /\ UNCHANGED <<extractedQuestions, pdfUploads, selectedExam, selectedCourse>>

ManualSaveFrom(groups, batch) == ManualSaveWith(manual, groups, batch)

\* the call of savePdfQuestions for the entry at the head of groups
ManualBatch(groups, course) ==
    IF groups = <<>> THEN [threw |-> FALSE, error |-> NoError, rows |-> <<>>]
    ELSE SaveBatch(groups[1].questions, course, groups[1].year)

\* the times the save button starts saveAllToDatabase
MaxManualSaves == 2

\* saveAllToDatabase from its try block on: a run of its own
ManualStarted ==
    [manual EXCEPT !.read = selectedCourse, !.error = NoError, !.submitted = <<>>,
                   !.saves = @ + 1]
ManualSaveStarts ==
    IF GroupThrows(extractedQuestions)
    THEN /\ manual' = [ManualStarted EXCEPT !.pc = "failed", !.error = JsTypeError]
         /\ UNCHANGED <<extractedQuestions, pdfUploads, selectedExam, selectedCourse>>
    ELSE ManualSaveWith(ManualStarted, GroupByYear(extractedQuestions),
                        ManualBatch(GroupByYear(extractedQuestions), selectedCourse))

\* The user presses the save button, which the page shows with auto-save
\* off and which is live when no save is running (isSaving), a course is
\* selected and questions are shown: the handler up to its first await.
SaveAllToDatabase ==
    /\ ~autoSaveEnabled
    /\ manual.pc \in {"idle", "saved", "failed"}
    /\ manual.saves < MaxManualSaves
    /\ IF selectedCourse = "" \/ extractedQuestions = <<>>
       THEN UNCHANGED vars
       ELSE /\ ManualSaveStarts
            /\ UNCHANGED store
    /\ UNCHANGED <<poolVars, callVars, dataVars, runVars, validPdfs, pdfIndex, pdfQuestions,
                   allExtractedQuestions, isScanning, autoSaveEnabled, scanRead,
                   pendingInsert, harnessCalls, tasks, save>>

\* the insert of an entry has resolved without an error: the next entry, with
\* the course the handler read when it started
ManualInsertReturns ==
    /\ manual.pc = "insert"
    /\ store' = Append(store, manual.rows)
    /\ ManualSaveFrom(Tail(manual.groups), ManualBatch(Tail(manual.groups), manual.read))
    /\ UNCHANGED <<poolVars, callVars, dataVars, runVars, validPdfs, pdfIndex, pdfQuestions,
                   allExtractedQuestions, isScanning, autoSaveEnabled, scanRead,
                   pendingInsert, harnessCalls, tasks, save>>

\* the insert of an entry has resolved with an error: savePdfQuestions throws,
\* to the catch block of saveAllToDatabase
ManualInsertFails ==
    /\ manual.pc = "insert"
    /\ manual' = [manual EXCEPT !.pc = "failed", !.groups = <<>>, !.rows = <<>>,
                                !.error = DatabaseError]
    /\ UNCHANGED <<poolVars, callVars, dataVars, runVars, pdfUploads, selectedExam,
                   validPdfs, pdfIndex, pdfQuestions,
                   allExtractedQuestions, extractedQuestions, isScanning, autoSaveEnabled,
                   scanRead, selectedCourse, pendingInsert, store, harnessCalls, tasks, save>>

\* the scan of a PDF that has ended, as the pages of the PDF and the records
\* they gave: none (a PDF without a page), one or two of page 1 and 2, and
\* records of page 2024; the PDF has no page after the last that gave a
\* record
ManualRecord(number, page) == StampOne(QuestionRecord(number, <<"a">>, <<>>), page)
ManualScans ==
    {[pages |-> 0, list |-> <<>>],
     [pages |-> 1, list |-> <<ManualRecord(<<"5">>, 1)>>],
     [pages |-> 1, list |-> <<ManualRecord(<<"5">>, 1), ManualRecord(<<"6">>, 1)>>],
     [pages |-> 2, list |-> <<ManualRecord(<<"5">>, 1), ManualRecord(<<"6">>, 2)>>],
     [pages |-> 2024, list |-> <<ManualRecord(<<"5">>, 2024)>>],
     [pages |-> 2024, list |-> <<ManualRecord(<<"5">>, 1), ManualRecord(<<"6">>, 2024)>>]}

\* the requests the scan made: one for each page, each answered at the first
\* attempt
RECURSIVE RequestsFrom(_, _)
RequestsFrom(scans, i) ==
    IF i > Len(scans) THEN 0 ELSE scans[i].pages + RequestsFrom(scans, i + 1)
ScanRequests(scans) == RequestsFrom(scans, 1)

\* the pool of the module, which no scan resets: the usage counts, the key
\* handed out last, the number of calls of getNextApiKey and the counts
\* before the last
UnusedPool ==
    [usage |-> [k \in AllKeys |-> 0], key |-> NoKey, acquired |-> 0,
     last |-> [k \in AllKeys |-> 0]]

\* the pool after one call of getNextApiKey
PoolAcquired(keys, pool) ==
    [usage |-> [pool.usage EXCEPT ![getNextApiKey(keys, pool.usage)] = @ + 1],
     key |-> getNextApiKey(keys, pool.usage),
     acquired |-> pool.acquired + 1,
     last |-> pool.usage]

\* the pool after n calls of getNextApiKey, the first half of them before the
\* second
RECURSIVE PoolAfter(_, _, _)
PoolAfter(keys, pool, n) ==
    IF n = 0 THEN pool
    ELSE IF n = 1 THEN PoolAcquired(keys, pool)
    ELSE LET half == PoolAfter(keys, pool, n \div 2)
         IN  IF half.acquired = pool.acquired + n \div 2
             THEN PoolAfter(keys, half, n - n \div 2)
             ELSE half
\* the slots of the page at the scan: with a file and a year, empty, and
\* with a year and no file; one at least is a valid upload
ManualSlots ==
    [file : {TRUE}, year : YearTexts]
        \cup {EmptySlot, [file |-> FALSE, year |-> <<"2", "0", "2", "4">>]}
ManualUploads == {uploads \in [1..MaxPdfs -> ManualSlots] : getValidPdfs(uploads) # <<>>}

\* the pool each scan that has ended left of each pool of the loaded module
ScansEnded == UNION {[1..n -> ManualScans] : n \in 1..MaxPdfs}
PoolLeft ==
    [keys \in {ConfiguredKeys(env) : env \in EnvValues},
     n \in {ScanRequests(scans) : scans \in ScansEnded} |->
        PoolAfter(keys, UnusedPool, n)]

ManualInit ==
    /\ API_KEYS \in {ConfiguredKeys(env) : env \in EnvValues}
    /\ CallIdle
    /\ DataInit
    /\ RunInit
    /\ caller = "none"
    /\ harnessCalls = 0
    /\ tasks = NoTasks
    /\ pdfUploads \in ManualUploads
    /\ validPdfs = getValidPdfs(pdfUploads)
    /\ pdfIndex = Len(validPdfs)
    /\ pdfQuestions = <<>>
    /\ isScanning = FALSE
    /\ autoSaveEnabled \in BOOLEAN
    /\ selectedExam = "id1"
    /\ selectedCourse = "id1"
    /\ scanRead = [course |-> selectedCourse, autoSave |-> FALSE]
    /\ pendingInsert = <<>>
    /\ store = <<>>
    /\ save = NoSave
    /\ \E scans \in [1..Len(validPdfs) -> ManualScans] :
          LET lists == [i \in 1..Len(scans) |-> scans[i].list]
              pool == PoolLeft[API_KEYS, ScanRequests(scans)]
          IN  /\ allExtractedQuestions = Flatten(lists)
              /\ extractedQuestions = Flatten(lists)
              /\ manual = [NoManual EXCEPT !.lists = lists, !.course = selectedCourse,
                                           !.uploads = validPdfs]
              /\ keyUsageCount = pool.usage
              /\ apiKey = pool.key
              /\ acquired = pool.acquired
              /\ lastAcquire = pool.last

\* what the user hands to updateQuestionImage, to updateYear and to the
\* dropzone of a slot: the type of the file dropped
ImageData == {<<"i">>}
FileTypes == {"application/pdf", "image/png"}
KeyUploadedImage ==
    <<"u", "p", "l", "o", "a", "d", "e", "d", "_", "i", "m", "a", "g", "e">>
TypedYears == YearTexts \cup {<<>>}

\* Array.prototype.filter((_, i) => i !== index), index counted from 0
WithoutIndex(list, index) ==
    [i \in 1..(Len(list) - 1) |-> IF i <= index THEN list[i] ELSE list[i + 1]]

\* the edits of the user between the scan and the end of the save
MaxEdits == 1

\* what the handlers of the page leave as they are while the user edits the
\* questions, the uploads or the selections
ManualRest ==
    <<poolVars, callVars, dataVars, runVars, validPdfs, pdfIndex, pdfQuestions,
      allExtractedQuestions, isScanning, scanRead, pendingInsert, store, harnessCalls, tasks,
      save>>
ManualSelections == <<selectedExam, selectedCourse, autoSaveEnabled>>
ManualUploaded == <<pdfUploads>>

\* an edit of the user is counted
Edited ==
    /\ manual.edits < MaxEdits
    /\ manual' = [manual EXCEPT !.edits = @ + 1]

\* The user deletes the question shown at index.  A save that is running
\* goes on with the questions it read when it started.
deleteQuestion(index) ==
    /\ Edited
    /\ index < Len(extractedQuestions)
    /\ extractedQuestions' = WithoutIndex(extractedQuestions, index)
    /\ UNCHANGED <<ManualRest, ManualSelections, ManualUploaded>>

\* The user adds an image to the question shown at index:
\* { ...q, uploaded_image: imageBase64 }
updateQuestionImage(index, imageBase64) ==
    /\ Edited
    /\ index < Len(extractedQuestions)
    /\ extractedQuestions' =
           [extractedQuestions EXCEPT ![index + 1] =
               JObj(ObjPut(SpreadProps(@), KeyUploadedImage, JStr(imageBase64)))]
    /\ UNCHANGED <<ManualRest, ManualSelections, ManualUploaded>>

\* the uploads are set; a scan that is running goes on with the uploads it
\* read when it started
SetPdfUploads(uploads) ==
    /\ pdfUploads' = uploads
    /\ UNCHANGED <<ManualRest, ManualSelections, extractedQuestions>>

\* The user drops a file of the type given on the slot at index: a PDF is
\* the file of the slot, whose year stays; another file is refused.
onDrop(index, type) ==
    /\ Edited
    /\ index < Len(pdfUploads)
    /\ SetPdfUploads(IF type = "application/pdf"
                     THEN [pdfUploads EXCEPT ![index + 1].file = TRUE]
                     ELSE pdfUploads)

\* The user removes the PDF of the slot at index, with the button a slot
\* with a file shows: the slot has no file and no year.
removePdf(index) ==
    /\ Edited
    /\ index < Len(pdfUploads)
    /\ pdfUploads[index + 1].file
    /\ SetPdfUploads([pdfUploads EXCEPT ![index + 1] = EmptySlot])

\* The user types the year of the slot at index.
updateYear(index, year) ==
    /\ Edited
    /\ index < Len(pdfUploads)
    /\ SetPdfUploads([pdfUploads EXCEPT ![index + 1].year = year])

\* The user chooses an exam, or none.
setSelectedExam(value) ==
    /\ Edited
    /\ selectedExam' = value
    /\ UNCHANGED <<ManualRest, ManualUploaded, extractedQuestions, selectedCourse,
                   autoSaveEnabled>>

\* The user chooses a course, or none; the list is disabled while no exam is
\* chosen.  A save that is running goes on with the course it read.
setSelectedCourse(value) ==
    /\ Edited
    /\ selectedExam # ""
    /\ selectedCourse' = value
    /\ UNCHANGED <<ManualRest, ManualUploaded, extractedQuestions, selectedExam,
                   autoSaveEnabled>>

\* The user presses the auto-save button.
setAutoSaveEnabled ==
    /\ Edited
    /\ autoSaveEnabled' = ~autoSaveEnabled
    /\ UNCHANGED <<ManualRest, ManualUploaded, extractedQuestions, selectedExam,
                   selectedCourse>>

\* The user presses the scan button, which is live when no scan is running,
\* a valid upload is on the page and an exam and a course are selected:
\* scanAndExtractQuestions up to its first await.  A save that is running
\* goes on with the questions it read when it started.
scanAndExtractQuestions ==
    /\ Edited
    /\ ~isScanning
    /\ getValidPdfs(pdfUploads) # <<>>
    /\ selectedExam # ""
    /\ selectedCourse # ""
    /\ ScanBegins(pdfUploads, selectedCourse, autoSaveEnabled)
    /\ UNCHANGED <<ManualUploaded, ManualSelections>>

\* the model answers the requests of the scan, each at the first attempt,
\* with a record or with prose
ManualResponses == {TextOneRecord, Prose}

ManualNext ==
    \/ SaveAllToDatabase
    \/ scanAndExtractQuestions
    \/ \E n \in 0..MaxPages : ConvertReturns(n)
    \/ ConvertFails
    \/ ScanPageResume
    \/ PageDelayElapses
    \/ InsertReturns
    \/ InsertFails
    \/ PdfDelayElapses
    \/ \E text \in ManualResponses : RunResponds(text)
    \/ ManualInsertReturns
    \/ ManualInsertFails
    \/ \E index \in 0..(Len(extractedQuestions) - 1) : deleteQuestion(index)
    \/ \E index \in 0..(Len(extractedQuestions) - 1), imageBase64 \in ImageData :
          updateQuestionImage(index, imageBase64)
    \/ \E index \in 0..(Len(pdfUploads) - 1), type \in FileTypes : onDrop(index, type)
    \/ \E index \in 0..(Len(pdfUploads) - 1) : removePdf(index)
    \/ \E index \in 0..(Len(pdfUploads) - 1), year \in TypedYears : updateYear(index, year)
    \/ \E value \in Selections : setSelectedExam(value)
    \/ \E value \in Selections : setSelectedCourse(value)
    \/ setAutoSaveEnabled

SpecManual == ManualInit /\ [][ManualNext]_vars

(***************************************************************************)
(* Part 3d.  The save specification: calls of savePdfQuestions made one    *)
(* after another, with the course selected at the call, on batches of      *)
(* records as the decoders can return them.                                *)
(***************************************************************************)
MaxSaves == 2

\* a record with the type and the statement given, as values
TypedRecord(type, statement) ==
    JObj(<<Member(KeyQuestionNumber, JStr(<<"5">>)),
           Member(KeyQuestionType, type),
           Member(KeyQuestionStatement, statement)>>)

\* records: with a statement, with an empty one, with one of white space, with
\* a number for a statement, with a type outside the four, with no statement,
\* with options that are an object with a length
SaveRecords ==
    {TypedRecord(JStr(TypeMCQ), JStr(<<"a">>)),
     TypedRecord(JStr(<<"N", "A", "T">>), JStr(<<"b">>)),
     TypedRecord(JStr(TypeMCQ), JStr(<<>>)),
     TypedRecord(JStr(TypeMCQ), JStr(<<SP, NL>>)),
     TypedRecord(JStr(TypeMCQ), JInt(5)),
     TypedRecord(JStr(<<"m", "c", "q">>), JStr(<<"a">>)),
     JObj(<<Member(KeyQuestionType, JStr(TypeMCQ))>>),
     JObj(<<Member(KeyQuestionType, JStr(TypeMCQ)),
            Member(KeyQuestionStatement, JStr(<<"c">>)),
            Member(KeyOptions, JObj(<<Member(KeyLength, JStr(<<"2">>))>>))>>)}
SaveBatches == UNION {[1..n -> SaveRecords] : n \in 0..2}
SaveInit ==
    /\ PoolInit
    /\ CallIdle
    /\ DataInit
    /\ RunInit
    /\ ScanInit
    /\ caller = "save"
    /\ harnessCalls = 0
    /\ tasks = NoTasks

\* what savePdfQuestions does up to its await, from the outcome of the filter
SaveBegins(questions, year, batch) ==
    /\ save' = [pc |-> IF batch.threw THEN "thrown" ELSE "insert",
                questions |-> questions, year |-> year, error |-> batch.error,
                inserted |-> ~batch.threw, rows |-> batch.rows]
    /\ pendingInsert' = batch.rows

\* savePdfQuestions(questions, year) is called with course selected
SaveCall(questions, course, year) ==
    /\ caller = "save"
    /\ save.pc \in {"idle", "returned", "thrown"}
    /\ harnessCalls < MaxSaves
    /\ harnessCalls' = harnessCalls + 1
    /\ UNCHANGED tasks
    /\ selectedCourse' = course
    /\ SaveBegins(questions, year, SaveBatch(questions, course, year))
    /\ UNCHANGED <<poolVars, callVars, dataVars, runVars, pdfUploads, selectedExam,
                   validPdfs, pdfIndex, pdfQuestions,
                   allExtractedQuestions, extractedQuestions, isScanning,
                   autoSaveEnabled, scanRead, store, manual>>

\* the insert has resolved without an error: savePdfQuestions returns
SaveInsertReturns ==
    /\ caller = "save"
    /\ save.pc = "insert"
    /\ store' = Append(store, pendingInsert)
    /\ pendingInsert' = <<>>
    /\ save' = [save EXCEPT !.pc = "returned"]
    /\ UNCHANGED <<poolVars, callVars, dataVars, runVars, pdfUploads, selectedExam,
                   validPdfs, pdfIndex, pdfQuestions,
                   allExtractedQuestions, extractedQuestions, isScanning,
                   autoSaveEnabled, scanRead, selectedCourse, harnessCalls, tasks, manual>>

\* the insert has resolved with an error: savePdfQuestions throws
SaveInsertFails ==
    /\ caller = "save"
    /\ save.pc = "insert"
    /\ pendingInsert' = <<>>
    /\ save' = [save EXCEPT !.pc = "thrown", !.error = DatabaseError]
    /\ UNCHANGED <<poolVars, callVars, dataVars, runVars, pdfUploads, selectedExam,
                   validPdfs, pdfIndex, pdfQuestions,
                   allExtractedQuestions, extractedQuestions, isScanning,
                   autoSaveEnabled, scanRead, selectedCourse, store, harnessCalls, tasks, manual>>

SaveNext ==
    \/ \E questions \in SaveBatches, course \in Selections, year \in SaveYears :
          SaveCall(questions, course, year)
    \/ SaveInsertReturns
    \/ SaveInsertFails

SpecSave == SaveInit /\ [][SaveNext]_vars

(***************************************************************************)
(* Properties of the runs, under Spec.  The page log holds, for each call  *)
(* of a page that has ended, whether it threw and the list it returned.    *)
(***************************************************************************)
\* the records the logged calls returned, in the order of the log
ListsOf(log) == Flatten([i \in 1..Len(log) |-> IF log[i].threw THEN <<>> ELSE log[i].list])
PagesOf(log) == [i \in 1..Len(log) |-> log[i].page]
PagesFrom(first, n) == [i \in 1..n |-> first + i - 1]

\* enhancedQuestionExtraction has returned: each pass called every page once,
\* in page order, and the result is the lists the second pass got, in order
TwoPassSkipsFailingPages ==
    run = "twopass" /\ runPc = "done" =>
        /\ Len(pageLog) = 2 * images
        /\ \A i \in 1..images : /\ pageLog[i].pass = "firstPass"
                                /\ pageLog[images + i].pass = "secondPass"
        /\ PagesOf(SubSeq(pageLog, 1, images)) = PagesFrom(startPageNumber, images)
        /\ PagesOf(SubSeq(pageLog, images + 1, 2 * images)) = PagesFrom(startPageNumber, images)
        /\ allQuestions = ListsOf(SubSeq(pageLog, images + 1, 2 * images))

\* the page loop of scanAndExtractQuestions has ended for a PDF: it called
\* every page once, in page order, and pdfQuestions is the lists it got, in
\* order; a PDF without a page got no call and gave no record
PageLoopSkipsFailingPages ==
    run = "scan" /\ runPc \notin {"page", "pageDelay"} /\ pageLog # <<>> =>
        IF images = 0 THEN pdfQuestions = <<>>
        ELSE LET pdf == pageLog[Len(pageLog)].pdf
                 calls == SelectSeq(pageLog, LAMBDA e : e.pdf = pdf)
             IN  /\ PagesOf(calls) = PagesFrom(1, images)
                 /\ pdfQuestions = ListsOf(calls)

\* the page numbers of the records of a list, and their being in order
PageNumbersOf(list) == [i \in 1..Len(list) |-> GetProp(list[i], KeyPageNumber).n]
NonDecreasing(ns) == \A i \in 1..(Len(ns) - 1) : ns[i] <= ns[i + 1]

\* the entries of the page log of the second pass, and of the pages of a PDF
SecondPassLog == SelectSeq(pageLog, LAMBDA e : e.pass = "secondPass")
PdfLog(pdf) == SelectSeq(pageLog, LAMBDA e : e.pdf = pdf)

\* C1: whichever pages fail, a run goes through every page and ends with
\* exactly the records returned for the pages that did not fail, in page
\* order; a page whose call threw contributes no record.
C1_FailingPagesContributeNothing ==
    /\ TwoPassSkipsFailingPages
    /\ PageLoopSkipsFailingPages
    /\ \A i \in 1..Len(pageLog) : pageLog[i].threw => pageLog[i].list = <<>>

\* the second pass failed on the first of two pages and the run returned the
\* records of the second
C1_Witness ==
    /\ run = "twopass"
    /\ runPc = "done"
    /\ images = 2
    /\ pageLog[3].threw
    /\ ~pageLog[4].threw
    /\ Len(pageLog[4].list) > 0
    /\ allQuestions = pageLog[4].list

(***************************************************************************)
(* Properties of the calls and of the pool, under SpecCall.                *)
(***************************************************************************)
\* the call has made attempts and every one ended with a rate-limit error
AllRateLimited ==
    /\ callKind \in CallKinds
    /\ Attempts(attemptLog) > 0
    /\ attemptLog["RateLimit"] = Attempts(attemptLog)

\* C2: a call whose attempts all fail with rate-limit errors fails after exactly
\* M attempts, M the number of keys of the pool: it has failed if and only if
\* the M-th attempt has, and it never makes more than M.
C2_ExactlyMAttempts ==
    AllRateLimited =>
        /\ Attempts(attemptLog) <= Len(API_KEYS)
        /\ (callPc = "thrown") <=> (Attempts(attemptLog) = Len(API_KEYS))
        /\ callPc \in {"thrown", "backoff", "inflight"}

C2_Witness ==
    /\ AllRateLimited
    /\ callPc = "thrown"
    /\ callKind = "context"
    /\ attemptLog["RateLimit"] = Len(API_KEYS)

\* C3: the error of a call whose M attempts all failed with rate-limit errors
\* is the all-keys-exhausted error, not the error of a single attempt.
C3_ExhaustedErrorIsDistinct ==
    (AllRateLimited /\ callPc = "thrown") => callError.name = "AllKeysExhausted"

\* C4: once an attempt of a call has failed with an error that is no rate-limit
\* error, the call has thrown that error: no other attempt is made.
C4_OtherErrorNotRetried ==
    (callKind \in CallKinds /\ attemptLog["Other"] > 0) =>
        (callPc = "thrown" /\ callError = OtherCallError)

\* C5: the key getNextApiKey handed out last was, by the counts before that
\* call, a least used key and the first such key in the order of API_KEYS; the
\* call added one to its count and left the other counts as they were.
C5_AcquireFirstLeastUsed ==
    acquired > 0 =>
        /\ \E i \in 1..Len(API_KEYS) :
              /\ API_KEYS[i] = apiKey
              /\ \A j \in 1..Len(API_KEYS) :
                    /\ lastAcquire[API_KEYS[j]] >= lastAcquire[apiKey]
                    /\ j < i => lastAcquire[API_KEYS[j]] > lastAcquire[apiKey]
        /\ keyUsageCount = [lastAcquire EXCEPT ![apiKey] = @ + 1]

\* the second key handed out although the first was used more: a tie among
\* the keys after the first
C5_Witness ==
    /\ acquired = Len(API_KEYS) + 2
    /\ apiKey = API_KEYS[2]
    /\ lastAcquire[API_KEYS[1]] = 2
    /\ lastAcquire[API_KEYS[3]] = 1

\* C6: after N calls of getNextApiKey on a pool of M keys, the counts of two
\* keys differ by at most 1 and no count exceeds ceil(N / M). (Refuted where
\* the environment key is also a hard-coded key: API_KEYS then names that key
\* twice, and after M calls its count is 2.)
C6_PoolBalanced ==
    \A i, j \in 1..Len(API_KEYS) :
        /\ keyUsageCount[API_KEYS[i]] - keyUsageCount[API_KEYS[j]] <= 1
        /\ keyUsageCount[API_KEYS[i]] <= (acquired + Len(API_KEYS) - 1) \div Len(API_KEYS)

\* a candidate is located in the text and does not parse (nor, where the pass
\* repairs, after the repair)
CandidateFails(kind, text) ==
    IF kind = "structure"
    THEN MatchObject(text).found /\ ~JSONParse(MatchObject(text).text).ok
    ELSE /\ LocateJson(text).found
         /\ ~JSONParse(LocateJson(text).text).ok
         /\ kind = "context" => ~JSONParse(FixJson(LocateJson(text).text)).ok

\* C7: in every pass, a response whose candidate cannot be parsed makes the
\* call return an empty result; the call throws nothing.
C7_DecodeFailureReturnsEmpty ==
    (callKind \in CallKinds /\ callText.got /\ CandidateFails(callKind, callText.text)) =>
        /\ callPc = "returned"
        /\ callError = NoError
        /\ callResult.list = <<>>
        /\ callResult.findings \in {JUndefined, JObj(<<>>)}

\* the text holds no bracketed span and no fenced block
NoCandidate(text) == ~MatchArray(text).found /\ ~MatchFence(text).found

\* C8: an extraction call that received a response with no bracketed span and
\* no fenced block has returned the empty list, with no error and no attempt
\* after the one that was answered.
C8_NoJsonReturnsEmptyList ==
    (callKind \in {"context", "single"} /\ callText.got /\ NoCandidate(callText.text)) =>
        /\ callPc = "returned"
        /\ callError = NoError
        /\ callResult.list = <<>>
        /\ attemptLog["ok"] = 1
        /\ Attempts(attemptLog) = retryCount + 1

C8_Witness ==
    /\ callKind = "single"
    /\ callPc = "returned"
    /\ callText.got
    /\ callText.text = Prose
    /\ retryCount > 0

\* C9: the single-pass decoder and the two-pass decoder are one machinery:
\* what an extraction call returns for a response text and a page is what the
\* other extraction call returns for them.
C9_DecodersAgree ==
    (callKind \in {"context", "single"} /\ callPc = "returned" /\ callText.got) =>
        /\ callResult.list = DecodeWithContext(callText.text, callPage).list
        /\ callResult.list = DecodeSinglePass(callText.text, callPage).list

\* the number of backslashes that end right before position i
RECURSIVE BackslashesBefore(_, _)
BackslashesBefore(s, i) ==
    IF i > 1 /\ s[i - 1] = BS THEN 1 + BackslashesBefore(s, i - 1) ELSE 0

\* the characters that make an escape of JSON after a backslash
JsonEscapes == {QT, BS, "/", "b", "f", "n", "r", "t", "u"}

\* s with every backslash that starts no escape of JSON written as two
EscapedAsMeant(s) ==
    Flatten([i \in 1..Len(s) |->
                IF /\ s[i] = BS
                   /\ BackslashesBefore(s, i) % 2 = 0
                   /\ CharAt(s, i + 1) \notin JsonEscapes
                THEN <<BS, BS>> ELSE <<s[i]>>])

\* s is an array in JSON but for backslashes that start no escape
ValidButForBackslashes(s) ==
    /\ ~JSONParse(s).ok
    /\ JSONParse(EscapedAsMeant(s)).ok
    /\ JSONParse(EscapedAsMeant(s)).v.t = "arr"

\* C10: when the array located in a response is valid but for unescaped
\* backslashes in its strings, on one line or over several, the contextual
\* call returns the records of the array, one for each element.
C10_BackslashesRepaired ==
    (/\ callKind = "context" /\ callPc = "returned" /\ callText.got
     /\ LocateJson(callText.text).found
     /\ ValidButForBackslashes(LocateJson(callText.text).text)) =>
        callResult.list =
            StampQuestions(JSONParse(EscapedAsMeant(LocateJson(callText.text).text)).v,
                           callPage).list

\* C11: every record a call of analyzePageForQuestions, of
\* extractQuestionsWithContext or of performExtraction has returned carries
\* the number of the page of the call as its page_number, whatever page the
\* model reported in the record.
C11_PageNumberStamped ==
    (callKind \in {"analyze", "context", "single"} /\ callPc = "returned") =>
        \A i \in 1..Len(callResult.list) :
            GetProp(callResult.list[i], KeyPageNumber) = JInt(callPage)

\* the repair path has returned a record in which the model reported page 9
C11_Witness ==
    /\ callKind = "context"
    /\ callPc = "returned"
    /\ callText.text = TextReportedPage
    /\ ~JSONParse(callText.text).ok
    /\ GetProp(JSONParse(FixJson(callText.text)).v.kids[1].v, KeyPageNumber) = JInt(9)
    /\ Len(callResult.list) = 1
    /\ callPage # 9

\* the parse an extraction call stamps: of the candidate, or in
\* extractQuestionsWithContext of the repaired candidate when the first fails
ParsedOrRepaired(first, kind, candidate) ==
    IF first.ok \/ kind # "context" THEN first ELSE JSONParse(FixJson(candidate))

ParsedCandidate(kind, text) ==
    ParsedOrRepaired(JSONParse(LocateJson(text).text), kind, LocateJson(text).text)

\* the records the model reported in the response of the call that returned
ReportedRecords == ParsedCandidate(callKind, callText.text).v.kids

\* an extraction call has returned the records of the list its response held
ReturnedReported ==
    /\ callKind \in {"context", "single"}
    /\ callPc = "returned"
    /\ callText.got
    /\ LocateJson(callText.text).found
    /\ ParsedCandidate(callKind, callText.text).ok
    /\ ParsedCandidate(callKind, callText.text).v.t = "arr"
    /\ Len(callResult.list) = Len(ReportedRecords)

\* C12: every record an extraction call has returned carries the
\* confidence_score the model reported for it, a reported 0 included, and 1.0
\* only when the model reported none.
C12_ReportedScoreKept ==
    ReturnedReported =>
        \A i \in 1..Len(callResult.list) :
            GetProp(callResult.list[i], KeyConfidenceScore) =
                IF GetProp(ReportedRecords[i].v, KeyConfidenceScore) = JUndefined
                THEN JInt(1)
                ELSE GetProp(ReportedRecords[i].v, KeyConfidenceScore)

\* the names of the properties of a record
FieldsOf(q) == {q.kids[i].k : i \in 1..Len(q.kids)}

\* out is the record q but for its page_number, which is p, and for a
\* confidence_score that is the default
SameButStamp(out, q, p) ==
    /\ out.t = "obj"
    /\ \A key \in (FieldsOf(out) \cup FieldsOf(q)) \ {KeyPageNumber, KeyConfidenceScore} :
            GetProp(out, key) = GetProp(q, key)
    /\ GetProp(out, KeyPageNumber) = JInt(p)
    /\ GetProp(out, KeyConfidenceScore) \in {GetProp(q, KeyConfidenceScore), JInt(1)}

\* an extraction call has returned from the serialization of the n-th list
ReturnedFromList(n) ==
    /\ callKind \in {"context", "single"}
    /\ callPc = "returned"
    /\ callText.got
    /\ callText.text = SerializedLists[n]

\* C13: an extraction call for page p that received the JSON serialization of
\* a well-formed list of records has returned a list of the same length and
\* order, each record the original but for its page_number, which is p, and
\* for a confidence_score that is the default.
C13_SerializedListRoundTrips ==
    \A n \in 1..Len(WellFormedLists) :
        ReturnedFromList(n) =>
            /\ Len(callResult.list) = Len(WellFormedLists[n].kids)
            /\ \A i \in 1..Len(callResult.list) :
                    SameButStamp(callResult.list[i], WellFormedLists[n].kids[i].v, callPage)

\* performExtraction has returned the record whose statement and options hold
\* a quote, a backslash, a line break and brackets
C13_Witness ==
    /\ ReturnedFromList(2)
    /\ callKind = "single"
    /\ Len(callResult.list) = 1
    /\ GetProp(callResult.list[1], KeyQuestionStatement) = JStr(<<QT, BS, NL, "]", "a">>)
    /\ callText.text # CompactArray(<<RecordText(<<"5">>, <<QT, BS, NL, "]", "a">>)>>)

\* C14: at every point of a run the accumulated list is the lists the calls
\* of the pages have returned so far, each whole and in the order it was
\* returned, one page after the other, so in non-decreasing page number; the
\* run ends with exactly that list.
C14_AccumulatedInPageOrder ==
    /\ run = "twopass" =>
          /\ allQuestions = ListsOf(SecondPassLog)
          /\ NonDecreasing(PageNumbersOf(allQuestions))
    /\ (run = "scan" /\ runPc \in {"page", "pageDelay", "insert", "pdfDelay"}) =>
          /\ pdfQuestions = ListsOf(PdfLog(pdfIndex))
          /\ NonDecreasing(PageNumbersOf(pdfQuestions))
    /\ (run = "scan" /\ runPc = "done") =>
          /\ extractedQuestions = ListsOf(pageLog)
          /\ Len(validPdfs) = 1 => NonDecreasing(PageNumbersOf(extractedQuestions))

\* a scan of one PDF of two pages has ended with the two records of page 1
\* followed by the record of page 2
C14_Witness ==
    /\ run = "scan"
    /\ runPc = "done"
    /\ Len(validPdfs) = 1
    /\ Len(pageLog) = 2
    /\ Len(pageLog[1].list) = 2
    /\ Len(pageLog[2].list) = 1
    /\ PageNumbersOf(extractedQuestions) = <<1, 1, 2>>
    /\ GetProp(extractedQuestions[2], KeyQuestionNumber) = JStr(<<"6">>)

\* C15: under FairSpec a scan that has started reaches its end: isScanning is
\* false again and extractedQuestions is every record the page calls of the
\* run returned, whatever failed on the way.
C15_ScanAlwaysEnds ==
    isScanning ~> (/\ ~isScanning
                   /\ runPc = "done"
                   /\ extractedQuestions = ListsOf(pageLog))

\* a scan of two PDFs with auto-save on has ended: the rasterization of the
\* first failed, a page call of the second threw, nothing reached the store,
\* and the records of the other page are shown
C15_Witness ==
    /\ run = "scan"
    /\ runPc = "done"
    /\ ~isScanning
    /\ Len(validPdfs) = 2
    /\ autoSaveEnabled
    /\ store = <<>>
    /\ Len(pageLog) = 2
    /\ \A i \in 1..Len(pageLog) : pageLog[i].pdf = 1
    /\ pageLog[1].threw
    /\ extractedQuestions # <<>>
    /\ extractedQuestions = pageLog[2].list

(***************************************************************************)
(* Properties of savePdfQuestions, under SpecSave.                         *)
(***************************************************************************)
\* a record is valid as the specification has it: its statement is a text
\* that is not empty once trimmed, its type one of the four, the course
\* selected, and the year from 2000 to 2030
ValidFor(q, course, year) ==
    /\ GetProp(q, KeyQuestionStatement).t = "str"
    /\ Trim(GetProp(q, KeyQuestionStatement).s) # <<>>
    /\ GetProp(q, KeyQuestionType).t = "str"
    /\ GetProp(q, KeyQuestionType).s \in TypeTags
    /\ course # ""
    /\ ~ParseInt(year).nan
    /\ ParseInt(year).n >= 2000
    /\ ParseInt(year).n <= 2030

\* the valid records of the call savePdfQuestions was called with, in order
ValidOfCall ==
    SelectSeq(save.questions, LAMBDA q : ValidFor(q, selectedCourse, save.year))

\* C16: a call of savePdfQuestions on a batch with a valid record hands to the
\* insert the rows of exactly the valid records of the batch, in their order.
C16_SubmitsExactlyTheValid ==
    (save.pc # "idle" /\ ValidOfCall # <<>>) =>
        /\ save.inserted
        /\ save.rows = [i \in 1..Len(ValidOfCall) |->
                           InsertRow(ValidOfCall[i], selectedCourse, save.year)]

\* C17: a call of savePdfQuestions on a batch with no valid record has thrown
\* the error 'No valid questions to save' and has issued no insert.
C17_NothingToSave ==
    (save.pc # "idle" /\ ValidOfCall = <<>>) =>
        /\ save.pc = "thrown"
        /\ save.error = NoValidError
        /\ ~save.inserted
        /\ pendingInsert = <<>>

\* the call was made on one record with a statement, a type of the four and
\* the course selected
OneSoundRecord ==
    /\ save.pc # "idle"
    /\ Len(save.questions) = 1
    /\ GetProp(save.questions[1], KeyQuestionStatement).t = "str"
    /\ Trim(GetProp(save.questions[1], KeyQuestionStatement).s) # <<>>
    /\ GetProp(save.questions[1], KeyQuestionType).t = "str"
    /\ GetProp(save.questions[1], KeyQuestionType).s \in TypeTags
    /\ selectedCourse # ""

\* C18: a record with a statement, a type of the four and a course is taken
\* as valid, and handed to the insert, exactly when the year y of the call
\* satisfies 2000 <= y <= 2030.
C18_YearRangeInclusive ==
    OneSoundRecord =>
        (save.inserted <=> (ParseInt(save.year).n >= 2000 /\ ParseInt(save.year).n <= 2030))

(***************************************************************************)
(* Properties of the shared descriptions and of the order of the calls,    *)
(* under Spec.                                                             *)
(***************************************************************************)
\* the question numbers of the records of a list
NumbersOf(list) == [i \in 1..Len(list) |-> GetProp(list[i], KeyQuestionNumber)]

\* the statement of the record holds the text
StatementHolds(q, text) ==
    /\ GetProp(q, KeyQuestionStatement).t = "str"
    /\ FindFrom(GetProp(q, KeyQuestionStatement).s, text, 1) # 0

\* a two-pass run of two pages has returned: the first pass stored a shared
\* description for the first page and the second pass got the records
\* numbered 5 and 6 for the second page
DescriptionThenTwoRecords ==
    /\ run = "twopass"
    /\ runPc = "done"
    /\ images = 2
    /\ Len(pageLog) = 4
    /\ MapGet(sharedDescriptions, PageNum(0)).t = "str"
    /\ ~pageLog[4].threw
    /\ NumbersOf(pageLog[4].list) = <<JStr(<<"5">>), JStr(<<"6">>)>>

\* C19: in such a run both records of the second page, as the run returns
\* them, hold the text of the shared description in their statements.
C19_DescriptionInlined ==
    DescriptionThenTwoRecords =>
        \A i \in 1..Len(allQuestions) :
            GetProp(allQuestions[i], KeyPageNumber) = JInt(PageNum(1)) =>
                StatementHolds(allQuestions[i], MapGet(sharedDescriptions, PageNum(0)).s)

\* the entries of the page log follow one another: PDF after PDF, and within
\* a PDF page after page from page 1 on
PdfsOneAfterAnother ==
    \A i \in 1..(Len(pageLog) - 1) :
        \/ /\ pageLog[i + 1].pdf = pageLog[i].pdf
           /\ pageLog[i + 1].page = pageLog[i].page + 1
        \/ /\ pageLog[i + 1].pdf > pageLog[i].pdf
           /\ pageLog[i + 1].page = 1

\* C20: in a scan at most one model request is in flight at any time, a
\* request is in flight only while its call awaits it, and the page calls
\* follow one another PDF after PDF: none is made for a PDF before those of
\* the PDFs before it have ended.
C20_OneCallAtATime ==
    /\ inFlight <= 1
    /\ inFlight = 1 <=> callPc = "inflight"
    /\ run = "scan" =>
          /\ PdfsOneAfterAnother
          /\ \A i \in 1..Len(pageLog) : pageLog[i].pdf <= pdfIndex
          /\ callPc # "idle" =>
                \A i \in 1..Len(pageLog) :
                    pageLog[i].pdf = pdfIndex => pageLog[i].page < callPage

\* a second attempt of the call for page 2 of the second PDF is in flight,
\* after the calls of the two pages of the first PDF
C20_Witness ==
    /\ run = "scan"
    /\ pdfIndex = 1
    /\ callPc = "inflight"
    /\ callPage = 2
    /\ retryCount > 0
    /\ inFlight = 1
    /\ Len(pageLog) = 3
    /\ pageLog[2].pdf = 0
    /\ pageLog[3].pdf = 1

(***************************************************************************)
(* Properties of the way a call ends and of the keys it uses, under        *)
(* SpecCall.                                                               *)
(***************************************************************************)
\* the call has ended with the all-keys-exhausted error
EndedExhausted ==
    /\ callKind \in CallKinds
    /\ callPc = "thrown"
    /\ callError.name = "AllKeysExhausted"

\* C21: a call ends with the all-keys-exhausted error only if it made M
\* attempts and every one of them failed with a rate-limit error; a call one of
\* whose attempts failed with another error does not end with it.
C21_ExhaustedOnlyByRateLimits ==
    EndedExhausted =>
        /\ Attempts(attemptLog) = Len(API_KEYS)
        /\ attemptLog["RateLimit"] = Len(API_KEYS)

\* the keys of a sequence are pairwise distinct
PairwiseDistinct(keys) ==
    \A i, j \in 1..Len(keys) : i # j => keys[i] # keys[j]

\* C22: the attempts of a call that has ended with the all-keys-exhausted
\* error used M pairwise distinct keys: every key of the pool exactly once,
\* whatever the usage counts were when the call started. (Refuted where the
\* environment key is also a hard-coded key: the M attempts then go to M - 1
\* keys, the first of them twice.)
C22_ExhaustedTriedEveryKeyOnce ==
    EndedExhausted =>
        /\ Len(callKeys) = Len(API_KEYS)
        /\ PairwiseDistinct(callKeys)
        /\ \A i \in 1..Len(API_KEYS) : \E j \in 1..Len(callKeys) : callKeys[j] = API_KEYS[i]

(***************************************************************************)
(* Properties of the order and of the pacing of the page calls, under      *)
(* Spec.                                                                   *)
(***************************************************************************)
\* the entries the first pass has logged
FirstPassLog == SelectSeq(pageLog, LAMBDA e : e.pass = "firstPass")

\* C23 (as stated): in a two-pass run the structural call of a page after the
\* first is made only when the extraction call of the page before it has ended.
C23_PageByPage ==
    (run = "twopass" /\ callKind = "structure" /\ callPage > startPageNumber) =>
        \E j \in 1..Len(pageLog) :
            /\ pageLog[j].pass = "secondPass"
            /\ pageLog[j].page = callPage - 1

\* C23 (amended): in a two-pass run the structural calls of all the pages come
\* first and the extraction calls of all the pages after them: an extraction
\* call is made only when the structural call of every page has ended, and no
\* structural call is made once an extraction call has been.
C23_PassAfterPass ==
    run = "twopass" =>
        /\ \A j, k \in 1..Len(pageLog) :
              (pageLog[j].pass = "secondPass" /\ pageLog[k].pass = "firstPass") => k < j
        /\ callKind = "context" =>
              PagesOf(FirstPassLog) = PagesFrom(startPageNumber, images)
        /\ callKind = "structure" => SecondPassLog = <<>>

\* the extraction call of the first of two pages is in flight after the
\* structural calls of both pages
C23_Witness ==
    /\ run = "twopass"
    /\ images = 2
    /\ callKind = "context"
    /\ callPc = "inflight"
    /\ callPage = startPageNumber
    /\ PagesOf(pageLog) = <<startPageNumber, startPageNumber + 1>>
    /\ pageLog[2].pass = "firstPass"

\* the step makes the first attempt of a new call
NewCall ==
    /\ callPc \in {"idle", "returned", "thrown"}
    /\ callKind' \in CallKinds
    /\ callPc' # "idle"

\* the delay awaited after a call of a kind: 5 s after a structural call
\* ("firstDelay"), 10 s after an extraction call
DelayAfter(kind) ==
    IF kind = "structure" THEN {"firstDelay"} ELSE {"secondDelay", "pageDelay"}

\* C24: in a run the call of a page after the first of its loop is made when
\* the delay after the call of the page before has passed (5 s after a
\* structural call, 10 s after an extraction call), also when that call
\* failed; and no delay is awaited after the last page.
C24_DelayBetweenPageCalls ==
    /\ [][(NewCall /\ pageIndex' > 0) => runPc \in DelayAfter(callKind')]_vars
    /\ [](runPc \in {"firstDelay", "secondDelay", "pageDelay"} => pageIndex < images - 1)

(***************************************************************************)
(* Properties of the usage counts, under Spec.                             *)
(***************************************************************************)
\* the sum of the usage counts of the keys from position i on
RECURSIVE SumFrom(_, _, _)
SumFrom(keys, usageCount, i) ==
    IF i > Len(keys) THEN 0 ELSE usageCount[keys[i]] + SumFrom(keys, usageCount, i + 1)
TotalUsage(usageCount) == SumFrom(<<EnvKey>> \o HardcodedKeys, usageCount, 1)

\* the attempts the call in progress has started: those that have ended and
\* the one in flight
AttemptsStarted(log, pending) == Attempts(log) + pending

\* C25: the sum of the usage counts is the number of attempts started so far,
\* ended or in flight: every step adds to the sum the number of attempts it
\* starts (the count goes up at the acquisition, with which the attempt
\* starts), and no count ever goes down.
C25_UsageCountsCountAttempts ==
    [][/\ TotalUsage(keyUsageCount') - TotalUsage(keyUsageCount) =
             AttemptsStarted(attemptLog', inFlight')
                - (IF callPc \in {"inflight", "backoff"}
                   THEN AttemptsStarted(attemptLog, inFlight) ELSE 0)
       /\ \A key \in AllKeys : keyUsageCount'[key] >= keyUsageCount[key]]_vars

\* the pool has gone round: an attempt is in flight with the first key, which
\* has been handed out twice
C25_Witness ==
    /\ callPc = "inflight"
    /\ inFlight = 1
    /\ apiKey = API_KEYS[1]
    /\ keyUsageCount[API_KEYS[1]] = 2
    /\ TotalUsage(keyUsageCount) = Len(API_KEYS) + 1
    /\ pageLog # <<>>

(***************************************************************************)
(* Properties of the pages a two-pass run calls and of the context of an   *)
(* extraction call, under Spec.                                            *)
(***************************************************************************)
\* the number of calls of a pass the log holds for a page
TimesCalled(pass, page) ==
    Len(SelectSeq(pageLog, LAMBDA e : e.pass = pass /\ e.page = page))

\* C26: enhancedQuestionExtraction calls the structural pass once and the
\* extraction pass once for every page of the document, whichever calls
\* fail: never twice, and when it has returned, once each.
C26_EveryPageOnceInEachPass ==
    run = "twopass" =>
        \A page \in PageNumbers, pass \in {"firstPass", "secondPass"} :
            /\ TimesCalled(pass, page) <= 1
            /\ runPc = "done" =>
                  TimesCalled(pass, page) =
                      IF page \in startPageNumber..(startPageNumber + images - 1)
                      THEN 1 ELSE 0

\* the structural call of the first of two pages failed; the structural call
\* of the second and the extraction call of the first were made and returned
C26_Witness ==
    /\ run = "twopass"
    /\ runPc = "done"
    /\ images = 2
    /\ pageLog[1].threw
    /\ pageLog[2].pass = "firstPass"
    /\ pageLog[2].page = startPageNumber + 1
    /\ ~pageLog[2].threw
    /\ pageLog[3].pass = "secondPass"
    /\ pageLog[3].page = startPageNumber
    /\ ~pageLog[3].threw
    /\ Len(pageLog[3].list) > 0

\* the last min(3, n) elements of a list of n, in its order
LastThree(list) ==
    LET n == Len(list)
        m == IF n < 3 THEN n ELSE 3
    IN  [i \in 1..m |-> list[n - m + i]]

\* C27: the recent-question context of the extraction call of a page is built
\* from the last min(3, n) of the n records the extraction calls of the
\* earlier pages of the run returned, in their order, and from nothing when
\* there is none.
C27_RecentContextIsLastThree ==
    (run = "twopass" /\ callKind = "context" /\ callPc = "inflight") =>
        /\ callPrompt.recent = LastThree(ListsOf(SecondPassLog))
        /\ ListsOf(SecondPassLog) = <<>> => callPrompt.recent = <<>>

\* the extraction call of the first page returned four records: the second,
\* third and fourth are the context of the call of the second page
C27_Witness ==
    /\ run = "twopass"
    /\ callKind = "context"
    /\ callPc = "inflight"
    /\ pageIndex = 1
    /\ Len(allQuestions) = 4
    /\ Len(callPrompt.recent) = 3
    /\ callPrompt.recent[1] = allQuestions[2]
    /\ callPrompt.recent[3] = allQuestions[4]

(***************************************************************************)
(* Properties of the page memory, under SpecMemory.                        *)
(***************************************************************************)
\* the pages before page of the PDF in progress whose call got a response
RespondedBefore(page) ==
    {q \in 1..(page - 1) :
        \E i \in 1..Len(pageLog) :
            pageLog[i].pdf = pdfIndex /\ pageLog[i].page = q /\ ~pageLog[i].threw}

\* the three highest numbers of a set of numbers
TopThree(S) == {q \in S : Cardinality({r \in S : r > q}) < 3}

\* the pages whose entries a prompt was built from
MemoryPages(prompt) == {prompt.memory[i].k : i \in 1..Len(prompt.memory)}

\* C28: the prompt of the request in flight for page p of a scan is built
\* from at most 3 entries of the page memory: those of the 3 highest-numbered
\* pages before p that got a response, in page order, or of all such pages
\* when they are fewer; the entry of p is not among them.
C28_PromptMemoryIsLastThree ==
    (run = "scan" /\ callKind = "single" /\ callPc = "inflight") =>
        /\ Len(callPrompt.memory) <= 3
        /\ Cardinality(MemoryPages(callPrompt)) = Len(callPrompt.memory)
        /\ MemoryPages(callPrompt) = TopThree(RespondedBefore(callPage))
        /\ \A i \in 1..(Len(callPrompt.memory) - 1) :
              callPrompt.memory[i].k < callPrompt.memory[i + 1].k
        /\ callPage \notin MemoryPages(callPrompt)

\* the request of page 5 is in flight and the four pages before it got a
\* response: the prompt holds the entries of pages 2, 3 and 4
C28_Witness ==
    /\ run = "scan"
    /\ callKind = "single"
    /\ callPc = "inflight"
    /\ callPage = 5
    /\ RespondedBefore(5) = {1, 2, 3, 4}
    /\ MemoryPages(callPrompt) = {2, 3, 4}

\* the entries of a memory for the pages other than page, in its order
OtherEntries(memory, page) == SelectSeq(memory, LAMBDA e : e.k # page)

\* the first n characters of a text
FirstChars(text, n) == [i \in 1..(IF Len(text) < n THEN Len(text) ELSE n) |-> text[i]]

\* the step in which the request in flight of performExtraction is answered
ResponseReceived == callKind = "single" /\ callPc = "inflight" /\ callText'.got

\* C29: performExtraction writes the page memory exactly when it receives a
\* response: the step that receives the response of page p, whatever it
\* decodes to, leaves under p the first 1000 characters of the response and
\* the other entries as they were; a step of the page loop that receives none
\* (an attempt fails, the call throws, the loop goes on) leaves the memory as
\* it was.
C29_MemoryWrittenAtResponse ==
    [][IF ResponseReceived
       THEN /\ SelectSeq(currentPdfMemory', LAMBDA e : e.k = callPage) =
                   <<Member(callPage, FirstChars(callText'.text, 1000))>>
            /\ OtherEntries(currentPdfMemory', callPage) = OtherEntries(currentPdfMemory, callPage)
       ELSE runPc = "page" => currentPdfMemory' = currentPdfMemory]_vars

\* page 2 was answered with more than 1000 characters of prose, which decode to
\* no question: the memory holds the entry of page 1 and, under 2, the first
\* 1000 characters
C29_Witness ==
    /\ run = "scan"
    /\ callPc = "returned"
    /\ callPage = 2
    /\ callResult.list = <<>>
    /\ Len(callText.text) > 1000
    /\ Len(currentPdfMemory) = 2
    /\ currentPdfMemory[1].k = 1
    /\ currentPdfMemory[2].k = 2
    /\ Len(currentPdfMemory[2].v) = 1000

(***************************************************************************)
(* Properties of the manual save, under SpecManual.                        *)
(***************************************************************************)
\* the rows the auto-save of the scan submits for a PDF: those of
\* savePdfQuestions(pdfQuestions, year) when the PDF gave records
AutoSaveRows(questions, course, year, batch) ==
    IF questions = <<>> \/ batch.threw THEN <<>> ELSE batch.rows

\* the rows the auto-save submits for the PDFs of the scan, in order
AutoSaved ==
    Flatten([i \in 1..Len(manual.uploads) |->
                AutoSaveRows(manual.lists[i], manual.course, manual.uploads[i].year,
                             SaveBatch(manual.lists[i], manual.course,
                                       manual.uploads[i].year))])

\* C30: the manual save submits the records with the course selected and the
\* year entered for their PDF: when it has ended, without an error of the
\* store, it has submitted the rows the auto-save submits for the same scan.
C30_ManualSaveAsAutoSave ==
    (manual.pc \in {"saved", "failed"} /\ manual.error # DatabaseError) =>
        Flatten(manual.submitted) = AutoSaved

(***************************************************************************)
(* Properties of the pool as a rotation.                                   *)
(***************************************************************************)
\* the key at position k mod M of API_KEYS, positions counted from 0
RoundRobinKey(k) == API_KEYS[(k % Len(API_KEYS)) + 1]

\* C31: from counts that are all zero, the k-th call of getNextApiKey
\* (k = 0, 1, 2, ...) returns the key at position k mod M of API_KEYS: the
\* pool hands out its keys in rotation. (Refuted where the environment key is
\* also a hard-coded key: the second position of API_KEYS that names it is
\* passed over.)
C31_PoolIsRoundRobin ==
    acquired > 0 => apiKey = RoundRobinKey(acquired - 1)

(***************************************************************************)
(* Properties of the pool under concurrent calls, under SpecConcurrent.    *)
(***************************************************************************)
\* the attempts the calls have started
RECURSIVE AttemptsOfTasks(_)
AttemptsOfTasks(t) == IF t = 0 THEN 0 ELSE tasks[t].attempts + AttemptsOfTasks(t - 1)

\* C32: when calls run at once and interleave at their awaits, getNextApiKey
\* still reads and writes the counts in one step: the sum of the counts is the
\* number of attempts the calls have started (no increment is lost), and the
\* counts of two keys differ by at most 1.
C32_ConcurrentAcquiresAtomic ==
    /\ TotalUsage(keyUsageCount) = AttemptsOfTasks(MaxTasks)
    /\ \A i, j \in 1..Len(API_KEYS) :
          keyUsageCount[API_KEYS[i]] - keyUsageCount[API_KEYS[j]] <= 1

\* two calls await responses at once, the second with the key handed out
\* after the first had its third: their attempts interleaved
C32_Witness ==
    /\ tasks[1].pc = "inflight"
    /\ tasks[2].pc = "inflight"
    /\ tasks[1].attempts = 3
    /\ tasks[2].attempts = 2
    /\ tasks[1].key = API_KEYS[4]
    /\ tasks[2].key = API_KEYS[5]
    /\ keyUsageCount[API_KEYS[5]] = 1

(***************************************************************************)
(* Properties of the fenced-block fallback of the extraction calls.        *)
(***************************************************************************)
\* the text holds no bracketed span and holds a fenced block
FenceOnly(text) == ~MatchArray(text).found /\ MatchFence(text).found

\* the text parses to a JSON array
ParsesToArray(text) == JSONParse(text).ok /\ JSONParse(text).v.t = "arr"

\* C33: an extraction call (extractQuestionsWithContext, performExtraction)
\* that received a response with no bracketed span and with a fenced block has
\* returned the empty list and thrown nothing, and the interior of the block
\* is not a JSON array.
C33_FenceFallbackReturnsEmpty ==
    (callKind \in {"context", "single"} /\ callText.got /\ FenceOnly(callText.text)) =>
        /\ ~ParsesToArray(MatchFence(callText.text).text)
        /\ callPc = "returned"
        /\ callError = NoError
        /\ callResult.list = <<>>

\* the block holds a well-formed record without the brackets of an array:
\* JSON.parse succeeds, and the call of extractQuestionsWithContext has
\* returned
C33_Witness ==
    /\ callKind = "context"
    /\ callPc = "returned"
    /\ callText.got
    /\ FenceOnly(callText.text)
    /\ JSONParse(MatchFence(callText.text).text).ok
    /\ JSONParse(MatchFence(callText.text).text).v.t = "obj"
    /\ GetProp(JSONParse(MatchFence(callText.text).text).v, KeyQuestionStatement).t = "str"

(***************************************************************************)
(* Properties of the shared description of a prompt, under                 *)
(* SpecDescriptions.                                                       *)
(***************************************************************************)
\* the structural call of the page returned findings with a description
\* (a sharedDescription that is truthy)
DescribedBy(e, page) ==
    /\ e.pass = "firstPass"
    /\ e.page = page
    /\ ~e.threw
    /\ Truthy(GetProp(e.findings, KeySharedDescription))

\* the description the first pass found for the page: undefined when its
\* structural call threw or returned findings without one
DescriptionFoundFor(page) ==
    IF \E j \in 1..Len(pageLog) : DescribedBy(pageLog[j], page)
    THEN GetProp(pageLog[CHOOSE j \in 1..Len(pageLog) : DescribedBy(pageLog[j], page)].findings,
                 KeySharedDescription)
    ELSE JUndefined

\* C34: in a two-pass run the prompt of the extraction call of a page holds
\* the shared description the structural call of that page returned, and none
\* ('No shared description found') when that call threw or returned none: the
\* description of another page is never in it.
C34_OwnDescriptionOnly ==
    (run = "twopass" /\ callKind = "context" /\ callPc = "inflight") =>
        callPrompt.description = DescriptionFoundFor(callPage)

\* the extraction call of page 2 is in flight with no description, after the
\* first pass found one for page 1 and another for page 3
C34_Witness ==
    /\ run = "twopass"
    /\ images = 3
    /\ callKind = "context"
    /\ callPc = "inflight"
    /\ callPage = 2
    /\ callPrompt.description = JUndefined
    /\ DescriptionFoundFor(1) = JStr(<<"a">>)
    /\ DescriptionFoundFor(3) = JStr(<<"b">>)
    /\ Len(sharedDescriptions) = 2

(***************************************************************************)
(* Properties of the memory and the context of a PDF, under Spec.          *)
(***************************************************************************)
\* the entries the scan has logged for the pages of the PDF in progress
LogOfPdf == SelectSeq(pageLog, LAMBDA e : e.pdf = pdfIndex)

\* the statements of the last page of the PDF in progress that gave records,
\* joined; the empty string when no page of it has
ContextOfPdf ==
    LET withRecords == SelectSeq(LogOfPdf, LAMBDA e : ~e.threw /\ Len(e.list) > 0)
    IN  IF withRecords = <<>> THEN <<>>
        ELSE JoinStatements(withRecords[Len(withRecords)].list)

\* the entry of the memory is the response of a page of the PDF in progress:
\* the log holds, for that page of this PDF, what the text of the entry
\* decodes to
FromThisPdf(entry) ==
    \E j \in 1..Len(LogOfPdf) :
        /\ LogOfPdf[j].page = entry.k
        /\ ~LogOfPdf[j].threw
        /\ LogOfPdf[j].list = Decoded["single", entry.v, entry.k].list

\* C35: in a scan the page memory and the previous-page context start empty
\* with each PDF: the prompt of a request for a page of a PDF is built from
\* the responses and the records of earlier pages of that PDF only, and from
\* nothing at its first page.
C35_MemoryAndContextPerPdf ==
    (run = "scan" /\ callKind = "single" /\ callPc = "inflight") =>
        /\ MemoryPages(callPrompt) = TopThree(RespondedBefore(callPage))
        /\ \A i \in 1..Len(callPrompt.memory) : FromThisPdf(callPrompt.memory[i])
        /\ callPrompt.previous = ContextOfPdf
        /\ callPage = 1 => callPrompt.memory = <<>> /\ callPrompt.previous = <<>>

\* the request of page 2 of the second PDF is in flight; both pages of the
\* first PDF gave records and page 1 of the second PDF gave none: the prompt
\* holds the response of that page alone and no previous context
C35_Witness ==
    /\ run = "scan"
    /\ pdfIndex = 1
    /\ callKind = "single"
    /\ callPc = "inflight"
    /\ callPage = 2
    /\ Len(pageLog) = 3
    /\ pageLog[1].pdf = 0 /\ Len(pageLog[1].list) > 0
    /\ pageLog[2].pdf = 0 /\ Len(pageLog[2].list) > 0
    /\ pageLog[3].pdf = 1 /\ ~pageLog[3].threw /\ pageLog[3].list = <<>>
    /\ callPrompt.previous = <<>>
    /\ Len(callPrompt.memory) = 1
    /\ callPrompt.memory[1] = [k |-> 1, v |-> Prose]

====
